---- MODULE Spec2Model ----
(***************************************************************************)
(* Submission path of the student feedback system: the POST handler of     *)
(* /api/submit-enhanced-feedback, its grouping and row-building helpers,   *)
(* and the spreadsheet store it writes to (addSheet, values.update,        *)
(* values.append).  Several POST invocations run concurrently; each is a   *)
(* linear sequence of awaited store calls.                                 *)
(***************************************************************************)
EXTENDS Integers, Sequences, FiniteSets, TLC

\* ---------------------------------------------------------------- bounds
MaxBatch == 1          \* longest batch a request of Spec submits
MaxBatchSingle == 3    \* longest batch of the single-request specification

Requests == {"r1", "r2"}

\* ---------------------------------------------------------------- values
\* A response value is string | number | boolean (EnhancedFeedbackData).
Num(n) == [type |-> "number", num |-> n, str |-> "", bool |-> FALSE]
Str(s) == [type |-> "string", num |-> 0, str |-> s, bool |-> FALSE]
Bool(b) == [type |-> "boolean", num |-> 0, str |-> "", bool |-> b]

Digits == <<"0", "1", "2", "3", "4", "5", "6", "7", "8", "9">>

RECURSIVE NatToString(_)
NatToString(n) ==
    IF n < 10 THEN Digits[n + 1]
    ELSE NatToString(n \div 10) \o Digits[(n % 10) + 1]

\* JavaScript String(v)
String(v) ==
    CASE v.type = "number" -> IF v.num < 0 THEN "-" \o NatToString(-v.num)
                              ELSE NatToString(v.num)
      [] v.type = "boolean" -> IF v.bool THEN "true" ELSE "false"
      [] OTHER -> v.str

\* JavaScript truthiness of a response value
Truthy(v) ==
    CASE v.type = "number" -> v.num # 0
      [] v.type = "boolean" -> v.bool
      [] OTHER -> v.str # ""

\* ------------------------------------------------------------ input sets
Q1 == "question1"
Q2 == "question2"
Q10 == "question10"

\* The question ids of the model in the order of Array.prototype.sort()
\* (UTF-16 code unit order: "question1" < "question10" < "question2").
QuestionIdOrder == <<Q1, Q10, Q2>>

NoResponses == [q \in {} |-> Num(0)]

\* response maps of the concurrent specification
ResponseMaps ==
    { [q \in {Q1} |-> Num(8)],
      [q \in {Q2} |-> Bool(FALSE)] }

\* response maps of the single-request specification
ResponseMapsSingle ==
    { NoResponses,
      [q \in {Q1} |-> Num(8)],
      [q \in {Q1} |-> Num(0)],
      [q \in {Q2, Q10} |-> IF q = Q2 THEN Str("") ELSE Num(10)],
      [q \in {Q1, Q2} |-> IF q = Q1 THEN Bool(TRUE) ELSE Str("ok")] }

Feedback(b, y, s, sub, t, reg, resp, ts) ==
    [branch |-> b, year |-> y, section |-> s, subject |-> sub, teacher |-> t,
     registrationNumber |-> reg, responses |-> resp, timestamp |-> ts]

Items ==
    { Feedback(b, "1st Year", "A", "Math", "Dr.X", "23B81A4623", resp, "T") :
        b \in {"CSE", "ECE"}, resp \in ResponseMaps }

ItemsSingle ==
    { Feedback("CSE", "1st Year", "A", "Math", "Dr.X", "23B81A4623", resp, "T") :
        resp \in ResponseMapsSingle }
    \cup
    { Feedback("ECE", "1st Year", "A", "Physics", "Dr.Y", "23B81A4623", resp, "") :
        resp \in ResponseMaps }
    \cup
    { Feedback("CSE", "1st Year", "A", "Math", "Dr.X", "23B81A4699",
               [q \in {Q1} |-> Num(8)], "T") }

SeqsUpTo(S, n) == UNION { [1..k -> S] : k \in 0..n }

Batches == SeqsUpTo(Items, MaxBatch)
BatchesSingle == SeqsUpTo(ItemsSingle, MaxBatchSingle)

\* new Date().toISOString(); a timestamp of "" stands for an item that
\* carries no (or an empty) timestamp
Clock == {"NOW"}


\* ------------------------------------------------------- pure functions
SheetKey(feedback) ==
    feedback.branch \o "_" \o feedback.year \o "_" \o feedback.section

HasKey(groups, sheetKey) == \E i \in 1..Len(groups) : groups[i].key = sheetKey

\* GroupStep with the push replaced by an assignment: a later item of a
\* cohort replaces the group instead of joining it
GroupStepOverwrite(groups, feedback) ==
    LET sheetKey == SheetKey(feedback)
    IN  IF HasKey(groups, sheetKey)
        THEN [i \in 1..Len(groups) |->
                IF groups[i].key = sheetKey
                THEN [groups[i] EXCEPT !.items = <<feedback>>]
                ELSE groups[i]]
        ELSE Append(groups, [key |-> sheetKey, items |-> <<feedback>>])

\* GroupStep with a new cohort put in front of the accumulator instead of
\* behind it
GroupStepPrepend(groups, feedback) ==
    LET sheetKey == SheetKey(feedback)
    IN  IF HasKey(groups, sheetKey)
        THEN [i \in 1..Len(groups) |->
                IF groups[i].key = sheetKey
                THEN [groups[i] EXCEPT !.items = Append(@, feedback)]
                ELSE groups[i]]
        ELSE <<[key |-> sheetKey, items |-> <<feedback>>]>> \o groups

\* reducer of groupFeedbackBySheet: groups is the accumulator, an object
\* whose entries are kept in insertion order
GroupStep(groups, feedback) ==
    LET sheetKey == SheetKey(feedback)
    IN  IF HasKey(groups, sheetKey)
        THEN [i \in 1..Len(groups) |->
                IF groups[i].key = sheetKey
                THEN [groups[i] EXCEPT !.items = Append(@, feedback)]
                ELSE groups[i]]
        ELSE Append(groups, [key |-> sheetKey, items |-> <<feedback>>])

RECURSIVE groupFeedbackBySheet(_)
groupFeedbackBySheet(feedbackData) ==
    IF feedbackData = <<>> THEN <<>>
    ELSE GroupStep(groupFeedbackBySheet(SubSeq(feedbackData, 1, Len(feedbackData) - 1)),
                   feedbackData[Len(feedbackData)])

SheetName(sheetKey) == "Responses_" \o sheetKey

AllQuestionIds(feedbackGroup) ==
    UNION { DOMAIN feedbackGroup[i].responses : i \in 1..Len(feedbackGroup) }

\* QuestionIds without the sort(): the ids in the insertion order of the
\* Set, item by item
RECURSIVE QuestionIdsUnsorted(_)
QuestionIdsUnsorted(feedbackGroup) ==
    IF feedbackGroup = <<>> THEN <<>>
    ELSE LET n == Len(feedbackGroup)
             seen == QuestionIdsUnsorted(SubSeq(feedbackGroup, 1, n - 1))
         IN  seen \o SelectSeq(QuestionIdOrder,
                        LAMBDA q : /\ q \in DOMAIN feedbackGroup[n].responses
                                   /\ \A i \in 1..Len(seen) : seen[i] # q)

\* Array.from(allQuestionIds).sort()
QuestionIds(feedbackGroup) ==
    SelectSeq(QuestionIdOrder, LAMBDA q : q \in AllQuestionIds(feedbackGroup))

Headers(questionIds) ==
    <<"Timestamp", "Branch", "Year", "Section", "Subject", "Teacher">> \o questionIds

\* AnswerCell without the guard on a missing response: String(undefined)
AnswerCellUndefined(feedback, questionId) ==
    IF questionId \in DOMAIN feedback.responses
    THEN (IF Truthy(feedback.responses[questionId])
          THEN String(feedback.responses[questionId]) ELSE "")
    ELSE "undefined"

\* response ? String(response) : ''
AnswerCell(feedback, questionId) ==
    IF questionId \in DOMAIN feedback.responses
       /\ Truthy(feedback.responses[questionId])
    THEN String(feedback.responses[questionId])
    ELSE ""

\* BuildRow with the registration number written after the answers
BuildRowWithRegistration(feedback, questionIds, now) ==
    << IF feedback.timestamp # "" THEN feedback.timestamp ELSE now,
       feedback.branch, feedback.year, feedback.section,
       feedback.subject, feedback.teacher >>
    \o [i \in 1..Len(questionIds) |-> AnswerCell(feedback, questionIds[i])]
    \o <<feedback.registrationNumber>>

BuildRow(feedback, questionIds, now) ==
    << IF feedback.timestamp # "" THEN feedback.timestamp ELSE now,
       feedback.branch, feedback.year, feedback.section,
       feedback.subject, feedback.teacher >>
    \o [i \in 1..Len(questionIds) |-> AnswerCell(feedback, questionIds[i])]

BuildRows(feedbackGroup, questionIds, now) ==
    [i \in 1..Len(feedbackGroup) |-> BuildRow(feedbackGroup[i], questionIds, now)]

\* ------------------------------------------------ configuration sheet
\* The cells of the "Admin Config" sheet and the query parameters are
\* strings taken character by character: a string is a sequence of
\* one-character strings, "" is <<>>.

MaxPending == 2        \* most admin-config fetches of the page in flight
MaxCohortBatch == 2    \* most items of a batch whose grouping is computed
MaxHeaderLength == 30  \* most cells of a header row whose ranges are computed
MaxConfigRows == 2     \* most data rows of the "Admin Config" sheet

\* the characters of the model in ascending UTF-16 code unit order
Chars ==
    <<" ", ".", "0", "1", "2", "3", "4", "5", "6", "7", "8", "9", "A",
       "B", "C", "D", "E", "F", "G", "H", "I", "J", "K", "L", "M", "N",
       "O", "P", "Q", "R", "S", "T", "U", "V", "W", "X", "Y", "Z", "a",
       "b", "c", "d", "e", "f", "g", "h", "i", "j", "k", "l", "m", "n",
       "o", "p", "q", "r", "s", "t", "u", "v", "w", "x", "y", "z">>

UpperCase ==
    <<"A", "B", "C", "D", "E", "F", "G", "H", "I", "J", "K", "L", "M",
       "N", "O", "P", "Q", "R", "S", "T", "U", "V", "W", "X", "Y", "Z">>

LowerCase ==
    <<"a", "b", "c", "d", "e", "f", "g", "h", "i", "j", "k", "l", "m",
       "n", "o", "p", "q", "r", "s", "t", "u", "v", "w", "x", "y", "z">>

\* order-preserving stand-in for charCodeAt
CharCode(c) == CHOOSE n \in DOMAIN Chars : Chars[n] = c

LowerChar(c) ==
    IF \E n \in DOMAIN UpperCase : UpperCase[n] = c
    THEN LowerCase[CHOOSE n \in DOMAIN UpperCase : UpperCase[n] = c]
    ELSE c

\* String.prototype.toLowerCase
ToLowerCase(str) == [i \in 1..Len(str) |-> LowerChar(str[i])]

\* String.prototype.includes
Includes(str, sub) ==
    \E i \in 0..(Len(str) - Len(sub)) : SubSeq(str, i + 1, i + Len(sub)) = sub

\* String.prototype.trim
RECURSIVE Trim(_)
Trim(str) ==
    IF str = <<>> THEN <<>>
    ELSE IF str[1] = " " THEN Trim(Tail(str))
    ELSE IF str[Len(str)] = " " THEN Trim(SubSeq(str, 1, Len(str) - 1))
    ELSE str

\* a < b in the order Array.prototype.sort() uses without a comparator
RECURSIVE StrLess(_, _)
StrLess(a, b) ==
    IF b = <<>> THEN FALSE
    ELSE IF a = <<>> THEN TRUE
    ELSE IF a[1] # b[1] THEN CharCode(a[1]) < CharCode(b[1])
    ELSE StrLess(Tail(a), Tail(b))

\* Set.prototype.add on a Set kept in insertion order
SetAdd(set, v) ==
    IF \E i \in 1..Len(set) : set[i] = v THEN set ELSE Append(set, v)

Insert(sorted, v) ==
    LET smaller == SelectSeq(sorted, LAMBDA x : ~StrLess(v, x))
        larger == SelectSeq(sorted, LAMBDA x : StrLess(v, x))
    IN  smaller \o <<v>> \o larger

\* SortStrings left out: Array.from(set) in insertion order
SortStringsNone(strs) == strs

\* Array.from(set).sort()
RECURSIVE SortStrings(_)
SortStrings(strs) ==
    IF strs = <<>> THEN <<>>
    ELSE Insert(SortStrings(SubSeq(strs, 1, Len(strs) - 1)), strs[Len(strs)])

\* cell texts
cBranch == <<"B", "r", "a", "n", "c", "h">>
cYear == <<"Y", "e", "a", "r">>
cSection == <<"S", "e", "c", "t", "i", "o", "n">>
cSubject == <<"S", "u", "b", "j", "e", "c", "t">>
cTeacher == <<"T", "e", "a", "c", "h", "e", "r">>
cQ1 == <<"Q", "1">>
cQ2 == <<"Q", "2">>
cBranchLower == <<"b", "r", "a", "n", "c", "h">>
cYearUpper == <<"Y", "E", "A", "R">>
cTeacherName == <<" ", "T", "e", "a", "c", "h", "e", "r", " ", "N", "a", "m", "e", " ">>
cQ1Padded == <<" ", "Q", "1", " ">>
cEmpty == <<>>
cBlank == <<" ", " ">>
cCSE == <<"C", "S", "E">>
cCSEPadded == <<" ", "C", "S", "E", " ">>
cCseLower == <<"c", "s", "e">>
cECE == <<"E", "C", "E">>
c1 == <<"1">>
c2 == <<"2">>
cA == <<"A">>
cB == <<"B">>
cMath == <<"M", "a", "t", "h">>
cPhy == <<"P", "h", "y">>
cDrX == <<"D", "r", ".", "X">>
cDrY == <<"D", "r", ".", "Y">>
cText1 == <<"t", "e", "x", "t", "1">>
cText2 == <<"t", "e", "x", "t", "2">>

\* the five header keywords
KwBranch == <<"b", "r", "a", "n", "c", "h">>
KwYear == <<"y", "e", "a", "r">>
KwSection == <<"s", "e", "c", "t", "i", "o", "n">>
KwSubject == <<"s", "u", "b", "j", "e", "c", "t">>
KwTeacher == <<"t", "e", "a", "c", "h", "e", "r">>

\* header rows of the sheet
ConfigHeaders ==
    { <<cBranch, cYear, cSection, cSubject, cTeacher, cQ1, cQ2>>,
      <<cBranchLower, cYearUpper, cSection, cSubject, cTeacherName, cEmpty, cQ1Padded>>,
      <<cBranch, cYear, cSection, cSubject>>,
      <<cTeacher, cBranch, cYear, cSection, cSubject, cQ1>> }

\* data rows of the sheet
ConfigDataRows ==
    { <<cCSE, c1, cA, cMath, cDrX, cText1, cText2>>,
      <<cDrX, cCSE, c1, cA, cMath, cText1>>,
      <<cCSEPadded, c1, cA, cPhy, cDrY>>,
      <<cECE, c2, cB, cMath, cBlank>>,
      <<cECE, c2, cB, cPhy, cDrY>>,
      <<cBlank, cEmpty, cA>>,
      <<cCseLower, c1, cA, cMath, cDrX>> }

\* the sheets: the empty sheet, and a header row with up to MaxConfigRows
\* data rows
ConfigSheets ==
    {<<>>} \cup
    { <<h>> \o rows : h \in ConfigHeaders, rows \in SeqsUpTo(ConfigDataRows, MaxConfigRows) }

\* the (branch, year, section) query parameters; "" is a missing parameter
SchemaQueries ==
    { [branch |-> cCSE, year |-> c1, section |-> cA],
      [branch |-> cECE, year |-> c2, section |-> cB],
      [branch |-> cEmpty, year |-> c1, section |-> cA] }

\* values.get drops the empty cells at the end of a row and the empty rows
\* at the end of the range
RECURSIVE DropTrailingEmpty(_)
DropTrailingEmpty(seq) ==
    IF seq = <<>> THEN <<>>
    ELSE IF seq[Len(seq)] = <<>> THEN DropTrailingEmpty(SubSeq(seq, 1, Len(seq) - 1))
    ELSE seq

\* spreadsheets.values.get over the first columns of the sheet
ReadRange(grid, columns) ==
    DropTrailingEmpty(
        [i \in 1..Len(grid) |->
            DropTrailingEmpty(SubSeq(grid[i], 1,
                IF Len(grid[i]) < columns THEN Len(grid[i]) ELSE columns))])

\* truthiness of row[i] (i counted from 0): a non-empty string
HasCell(row, i) == i + 1 <= Len(row) /\ row[i + 1] # <<>>

\* for (const row of dataRows) if (row[i]) set.add(row[i].trim())
RECURSIVE CollectColumn(_, _)
CollectColumn(dataRows, i) ==
    IF dataRows = <<>> THEN <<>>
    ELSE LET n == Len(dataRows)
             set == CollectColumn(SubSeq(dataRows, 1, n - 1), i)
         IN  IF HasCell(dataRows[n], i) THEN SetAdd(set, Trim(dataRows[n][i + 1]))
             ELSE set

\* the body of the options response
ParseOptions(rows) ==
    [branches |-> SortStrings(CollectColumn(Tail(rows), 0)),
     years |-> SortStrings(CollectColumn(Tail(rows), 1)),
     sections |-> SortStrings(CollectColumn(Tail(rows), 2))]

\* headers.findIndex(h => h.toLowerCase().includes(keyword))
FindIndex(headers, keyword) ==
    LET hit(i) == Includes(ToLowerCase(headers[i]), keyword)
    IN  IF \E i \in 1..Len(headers) : hit(i)
        THEN (CHOOSE i \in 1..Len(headers) : hit(i) /\ \A j \in 1..(i - 1) : ~hit(j)) - 1
        ELSE -1

\* RequiredColumnsMissing with the teacher column left out of the test
RequiredColumnsMissingButTeacher(branchIndex, yearIndex, sectionIndex, subjectIndex, teacherIndex) ==
    branchIndex = -1 \/ yearIndex = -1 \/ sectionIndex = -1 \/ subjectIndex = -1

RequiredColumnsMissing(branchIndex, yearIndex, sectionIndex, subjectIndex, teacherIndex) ==
    \/ branchIndex = -1 \/ yearIndex = -1 \/ sectionIndex = -1
    \/ subjectIndex = -1 \/ teacherIndex = -1

\* QuestionId numbered by the column index instead of by the count
QuestionIdByIndex(questionColumns, index) == "question" \o NatToString(index)

\* `question${questionColumns.length + 1}`
QuestionId(questionColumns, index) ==
    "question" \o NatToString(Len(questionColumns) + 1)

\* headers.forEach((header, index) => ...): the question columns
RECURSIVE QuestionColumns(_, _)
QuestionColumns(headers, teacherIndex) ==
    IF headers = <<>> THEN <<>>
    ELSE LET n == Len(headers)
             index == n - 1
             questionColumns == QuestionColumns(SubSeq(headers, 1, n - 1), teacherIndex)
         IN  IF index > teacherIndex /\ headers[n] # <<>> /\ Trim(headers[n]) # <<>>
             THEN Append(questionColumns,
                         [index |-> index,
                          id |-> QuestionId(questionColumns, index),
                          text |-> Trim(headers[n])])
             ELSE questionColumns

\* questionColumns.map(col => ({id, text, type: 'rating', required: true}))
Questions(questionColumns) ==
    [i \in 1..Len(questionColumns) |->
        [id |-> questionColumns[i].id, text |-> questionColumns[i].text,
         type |-> "rating", required |-> TRUE]]

\* row[index] is not undefined
CellDefined(row, index) == index >= 0 /\ index + 1 <= Len(row)

\* row[index]?.trim() === value
CellIs(row, index, value) == CellDefined(row, index) /\ Trim(row[index + 1]) = value

\* row[index]?.trim() is truthy
CellTruthy(row, index) == CellDefined(row, index) /\ Trim(row[index + 1]) # <<>>

\* RowMatches without the test of the teacher cell
RowMatchesAnyTeacher(row, query, branchIndex, yearIndex, sectionIndex, subjectIndex, teacherIndex) ==
    /\ CellIs(row, branchIndex, query.branch)
    /\ CellIs(row, yearIndex, query.year)
    /\ CellIs(row, sectionIndex, query.section)
    /\ CellTruthy(row, subjectIndex)
    /\ CellDefined(row, teacherIndex)

\* the test of line 121
RowMatches(row, query, branchIndex, yearIndex, sectionIndex, subjectIndex, teacherIndex) ==
    /\ CellIs(row, branchIndex, query.branch)
    /\ CellIs(row, yearIndex, query.year)
    /\ CellIs(row, sectionIndex, query.section)
    /\ CellTruthy(row, subjectIndex)
    /\ CellTruthy(row, teacherIndex)

\* for (const row of dataRows) ... subjects.push(...)
RECURSIVE Subjects(_, _, _, _, _, _, _, _)
Subjects(dataRows, query, branchIndex, yearIndex, sectionIndex, subjectIndex, teacherIndex, questions) ==
    IF dataRows = <<>> THEN <<>>
    ELSE LET n == Len(dataRows)
             row == dataRows[n]
             subjects == Subjects(SubSeq(dataRows, 1, n - 1), query, branchIndex,
                                  yearIndex, sectionIndex, subjectIndex, teacherIndex,
                                  questions)
         IN  IF RowMatches(row, query, branchIndex, yearIndex, sectionIndex,
                           subjectIndex, teacherIndex)
             THEN Append(subjects, [subject |-> Trim(row[subjectIndex + 1]),
                                    teacher |-> Trim(row[teacherIndex + 1]),
                                    questions |-> questions])
             ELSE subjects

\* the responses of GET admin-config
\* (error names the message of the error response)
NoSchemaResponse ==
    [status |-> 0, error |-> "", useStaticData |-> FALSE, branch |-> <<>>,
     year |-> <<>>, section |-> <<>>, subjects |-> <<>>, lastUpdated |-> ""]

SchemaError(status, error, useStaticData) ==
    [status |-> status, error |-> error, useStaticData |-> useStaticData,
     branch |-> <<>>, year |-> <<>>, section |-> <<>>, subjects |-> <<>>,
     lastUpdated |-> ""]

SchemaOk(query, subjects, now) ==
    [status |-> 200, error |-> "", useStaticData |-> FALSE, branch |-> query.branch,
     year |-> query.year, section |-> query.section, subjects |-> subjects,
     lastUpdated |-> now]

\* NoSubjects never true: the 404 for an empty subject list left out
NoSubjectsNever(subjects) == FALSE

\* subjects.length === 0
NoSubjects(subjects) == Len(subjects) = 0

\* GET admin-config from the rows read to the response
ParseCohortSchema(rows, query, now) ==
    IF Len(rows) = 0 THEN SchemaError(404, "No data found", TRUE)
    ELSE
    LET headers == rows[1]
        dataRows == Tail(rows)
        branchIndex == FindIndex(headers, KwBranch)
        yearIndex == FindIndex(headers, KwYear)
        sectionIndex == FindIndex(headers, KwSection)
        subjectIndex == FindIndex(headers, KwSubject)
        teacherIndex == FindIndex(headers, KwTeacher)
        subjects == Subjects(dataRows, query, branchIndex, yearIndex, sectionIndex,
                             subjectIndex, teacherIndex,
                             Questions(QuestionColumns(headers, teacherIndex)))
    IN  IF RequiredColumnsMissing(branchIndex, yearIndex, sectionIndex, subjectIndex,
                                  teacherIndex)
        THEN SchemaError(400, "Required columns not found", TRUE)
        ELSE IF NoSubjects(subjects) THEN SchemaError(404, "No subjects found", TRUE)
        ELSE SchemaOk(query, subjects, now)

\* the responses of GET get-options
NoOptionsResponse ==
    [status |-> 0, error |-> "", branches |-> <<>>, years |-> <<>>, sections |-> <<>>]

OptionsError(status, error) ==
    [status |-> status, error |-> error, branches |-> <<>>, years |-> <<>>,
     sections |-> <<>>]

OptionsOk(options) ==
    [status |-> 200, error |-> "", branches |-> options.branches,
     years |-> options.years, sections |-> options.sections]

\* the two options routes of the repository: the one of
\* src/app/api/get-options/route.ts and the one that validates its
\* environment and rejects a sheet with a header row only
OptionsRoutes == {"get-options", "get-options-validated"}

Fetches == {"f1", "f2"}

NoQuery == [branch |-> <<>>, year |-> <<>>, section |-> <<>>]

\* ---------------------------------------------------------------- state
VARIABLES
    sheets,           \* the spreadsheet: sheet title -> rows (each a sequence of cells)
    dataRows,         \* history: the <<title, row index>> positions written by values.append
    nodeEnv,          \* process.env.NODE_ENV
    spreadsheetId,    \* process.env.GOOGLE_SPREADSHEET_ID ("" when not configured)
    pc,               \* per request: position in POST / processSheetFeedback
    feedbackData,     \* per request: the parsed body
    groupedFeedback,  \* per request: the entries of groupFeedbackBySheet(feedbackData)
    idx,              \* per request: index of the entry the for-loop is at
    response,         \* per request: the NextResponse returned
    calls,            \* per request: the store calls issued, in order, with their outcome
    clientEmail,      \* process.env.GOOGLE_CLIENT_EMAIL ("" when not set)
    privateKey,       \* process.env.GOOGLE_PRIVATE_KEY ("" when not set)
    adminSheet,       \* the cells of the "Admin Config" sheet, row by row
    optionsResponse,  \* per options route: the response of GET get-options
    schemaRequest,    \* per fetch: the branch, year, section query parameters
    schemaResponse,   \* per fetch: the response of GET admin-config
    ranges,           \* the header length and the two ranges processSheetFeedback builds from it
    grouping,         \* a batch and the entries groupFeedbackBySheet makes of it
    page,             \* the state of the survey page (Home)
    pending           \* the admin-config fetches of the page still in flight

\* the state of the two configuration routes
configVars == <<clientEmail, privateKey, adminSheet, optionsResponse,
                schemaRequest, schemaResponse>>

\* the state of the submit route
submitVars == <<sheets, dataRows, pc, feedbackData, groupedFeedback, idx,
                response, calls>>

\* the ranges of the store calls and the grouping of a batch, computed apart
\* from the requests
functionVars == <<ranges, grouping>>

\* the survey page
pageVars == <<page, pending>>

vars == <<sheets, dataRows, nodeEnv, spreadsheetId, pc, feedbackData,
          groupedFeedback, idx, response, calls, clientEmail, privateKey,
          adminSheet, optionsResponse, schemaRequest, schemaResponse, ranges,
          grouping, page, pending>>

\* adminConfig = null
NullConfig == [null |-> TRUE, branch |-> "", year |-> "", section |-> "", subjects |-> <<>>]

\* the page after mount: nothing selected, no configuration, no feedback
NoPage ==
    [selectedBranch |-> "", selectedYear |-> "", selectedSection |-> "",
     adminConfig |-> NullConfig, feedbackData |-> <<>>]

\* no batch grouped yet
NoGrouping == [feedbackData |-> <<>>, grouped |-> FALSE, groups |-> <<>>]

\* no range built yet
NoRanges == [sheetName |-> "", length |-> 0, header |-> "", append |-> ""]

NoResponse == [status |-> 0, sheetsProcessed |-> -1, developmentMode |-> FALSE]
Response(status, n, dev) == [status |-> status, sheetsProcessed |-> n, developmentMode |-> dev]

Call(op, title, values, result) ==
    [op |-> op, title |-> title, values |-> values, result |-> result]

Init ==
    /\ sheets = [t \in {} |-> <<>>]
    /\ dataRows = {}
    /\ nodeEnv \in {"production", "development"}
    /\ spreadsheetId \in {"", "sheet-id"}
    /\ pc = [r \in Requests |-> "idle"]
    /\ feedbackData = [r \in Requests |-> <<>>]
    /\ groupedFeedback = [r \in Requests |-> <<>>]
    /\ idx = [r \in Requests |-> 0]
    /\ response = [r \in Requests |-> NoResponse]
    /\ calls = [r \in Requests |-> <<>>]
    /\ clientEmail = "service-account"
    /\ privateKey = "key"
    /\ adminSheet = <<>>
    /\ optionsResponse = [v \in OptionsRoutes |-> NoOptionsResponse]
    /\ schemaRequest = [f \in Fetches |-> NoQuery]
    /\ schemaResponse = [f \in Fetches |-> NoSchemaResponse]
    /\ ranges = NoRanges
    /\ grouping = NoGrouping
    /\ page = NoPage
    /\ pending = <<>>

\* the entry processSheetFeedback is working on
CurKey(r) == groupedFeedback[r][idx[r]].key
CurGroup(r) == groupedFeedback[r][idx[r]].items
CurSheet(r) == SheetName(CurKey(r))
CurQuestionIds(r) == QuestionIds(CurGroup(r))
CurHeaders(r) == Headers(CurQuestionIds(r))

\* NoFeedbackData with only the !feedbackData test: an array is never falsy
NoFeedbackDataNullOnly(body) == FALSE

\* !feedbackData || feedbackData.length === 0
NoFeedbackData(body) == Len(body) = 0

Finish(r, resp) ==
    /\ pc' = [pc EXCEPT ![r] = "done"]
    /\ response' = [response EXCEPT ![r] = resp]

\* for (const [sheetKey, feedbackGroup] of Object.entries(groupedFeedback)):
\* go to entry i, or leave the loop and answer 200
LoopTo(r, groups, i) ==
    IF i <= Len(groups)
    THEN /\ idx' = [idx EXCEPT ![r] = i]
         /\ pc' = [pc EXCEPT ![r] = "addSheet"]
         /\ response' = response
    ELSE /\ idx' = idx
         /\ Finish(r, Response(200, Len(groups), FALSE))

\* CatchResponse with the development fallback taken unconditionally
CatchResponseSimulated == Response(200, -1, TRUE)

\* the catch block of POST
CatchResponse ==
    IF nodeEnv = "development" THEN Response(200, -1, TRUE)
    ELSE Response(500, -1, FALSE)

\* POST up to the for-loop: parse, validate, configure, group
Post(r, body) ==
    /\ pc[r] = "idle"
    /\ feedbackData' = [feedbackData EXCEPT ![r] = body]
    /\ IF NoFeedbackData(body)
       THEN /\ Finish(r, Response(400, -1, FALSE))
            /\ UNCHANGED <<groupedFeedback, idx>>
       ELSE IF spreadsheetId = ""
       THEN /\ Finish(r, Response(500, -1, FALSE))
            /\ UNCHANGED <<groupedFeedback, idx>>
       ELSE /\ groupedFeedback' = [groupedFeedback EXCEPT ![r] = groupFeedbackBySheet(body)]
            /\ LoopTo(r, groupFeedbackBySheet(body), 1)
    /\ UNCHANGED <<sheets, dataRows, nodeEnv, spreadsheetId, calls>>
    /\ UNCHANGED configVars
    /\ UNCHANGED functionVars
    /\ UNCHANGED pageVars

\* batchUpdate addSheet succeeds: the title is new
AddSheetOk(r) ==
    /\ pc[r] = "addSheet"
    /\ CurSheet(r) \notin DOMAIN sheets
    /\ sheets' = [t \in DOMAIN sheets \cup {CurSheet(r)} |->
                    IF t = CurSheet(r) THEN <<>> ELSE sheets[t]]
    /\ calls' = [calls EXCEPT ![r] = Append(@, Call("addSheet", CurSheet(r), <<>>, "ok"))]
    /\ pc' = [pc EXCEPT ![r] = "update"]
    /\ UNCHANGED <<dataRows, nodeEnv, spreadsheetId, feedbackData, groupedFeedback,
                   idx, response>>
    /\ UNCHANGED configVars
    /\ UNCHANGED functionVars
    /\ UNCHANGED pageVars

\* AddSheetFails without the try/catch: the error reaches the catch of POST
AddSheetFailsThrows(r) ==
    /\ pc[r] = "addSheet"
    /\ \E result \in {"exists", "error"} :
          /\ result = "exists" => CurSheet(r) \in DOMAIN sheets
          /\ calls' = [calls EXCEPT ![r] =
                          Append(@, Call("addSheet", CurSheet(r), <<>>, result))]
    /\ Finish(r, CatchResponse)
    /\ UNCHANGED <<sheets, dataRows, nodeEnv, spreadsheetId, feedbackData,
                   groupedFeedback, idx>>
    /\ UNCHANGED configVars
    /\ UNCHANGED functionVars
    /\ UNCHANGED pageVars

\* AddSheetFails with the header write placed after the try/catch: the
\* header is written whether or not this request created the sheet
AddSheetFailsThenHeader(r) ==
    /\ pc[r] = "addSheet"
    /\ \E result \in {"exists", "error"} :
          /\ result = "exists" => CurSheet(r) \in DOMAIN sheets
          /\ calls' = [calls EXCEPT ![r] =
                          Append(@, Call("addSheet", CurSheet(r), <<>>, result))]
    /\ pc' = [pc EXCEPT ![r] = "update"]
    /\ UNCHANGED <<sheets, dataRows, nodeEnv, spreadsheetId, feedbackData,
                   groupedFeedback, idx, response>>
    /\ UNCHANGED configVars
    /\ UNCHANGED functionVars
    /\ UNCHANGED pageVars

\* batchUpdate addSheet throws (the title exists, or the store call fails):
\* the catch of processSheetFeedback logs it and execution goes on to the append
AddSheetFails(r) ==
    /\ pc[r] = "addSheet"
    /\ \E result \in {"exists", "error"} :
          /\ result = "exists" => CurSheet(r) \in DOMAIN sheets
          /\ calls' = [calls EXCEPT ![r] =
                          Append(@, Call("addSheet", CurSheet(r), <<>>, result))]
    /\ pc' = [pc EXCEPT ![r] = "append"]
    /\ UNCHANGED <<sheets, dataRows, nodeEnv, spreadsheetId, feedbackData,
                   groupedFeedback, idx, response>>
    /\ UNCHANGED configVars
    /\ UNCHANGED functionVars
    /\ UNCHANGED pageVars

\* values.update of range A1:<col>1 with RAW values [headers]: the first
\* headers.length cells of row 1 are overwritten
WriteRow1(rows, headers) ==
    IF rows = <<>> THEN <<headers>>
    ELSE [rows EXCEPT ![1] =
            headers \o SubSeq(rows[1], Len(headers) + 1, Len(rows[1]))]

UpdateOk(r) ==
    /\ pc[r] = "update"
    /\ CurSheet(r) \in DOMAIN sheets
    /\ sheets' = [sheets EXCEPT ![CurSheet(r)] = WriteRow1(@, CurHeaders(r))]
    /\ dataRows' = dataRows \ {<<CurSheet(r), 1>>}
    /\ calls' = [calls EXCEPT ![r] =
                    Append(@, Call("update", CurSheet(r), <<CurHeaders(r)>>, "ok"))]
    /\ pc' = [pc EXCEPT ![r] = "append"]
    /\ UNCHANGED <<nodeEnv, spreadsheetId, feedbackData, groupedFeedback, idx, response>>
    /\ UNCHANGED configVars
    /\ UNCHANGED functionVars
    /\ UNCHANGED pageVars

\* UpdateFails with the header write outside the try block: the error
\* reaches the catch of POST
UpdateFailsThrows(r) ==
    /\ pc[r] = "update"
    /\ calls' = [calls EXCEPT ![r] =
                    Append(@, Call("update", CurSheet(r), <<CurHeaders(r)>>, "error"))]
    /\ Finish(r, CatchResponse)
    /\ UNCHANGED <<sheets, dataRows, nodeEnv, spreadsheetId, feedbackData,
                   groupedFeedback, idx>>
    /\ UNCHANGED configVars
    /\ UNCHANGED functionVars
    /\ UNCHANGED pageVars

\* values.update throws: same catch as addSheet
UpdateFails(r) ==
    /\ pc[r] = "update"
    /\ calls' = [calls EXCEPT ![r] =
                    Append(@, Call("update", CurSheet(r), <<CurHeaders(r)>>, "error"))]
    /\ pc' = [pc EXCEPT ![r] = "append"]
    /\ UNCHANGED <<sheets, dataRows, nodeEnv, spreadsheetId, feedbackData,
                   groupedFeedback, idx, response>>
    /\ UNCHANGED configVars
    /\ UNCHANGED functionVars
    /\ UNCHANGED pageVars

\* values.append succeeds: the rows go below the last row of the sheet, and
\* the for-loop of POST moves to the next entry
AppendOk(r) ==
    /\ pc[r] = "append"
    /\ CurSheet(r) \in DOMAIN sheets
    /\ \E now \in Clock :
         LET rows == BuildRows(CurGroup(r), CurQuestionIds(r), now)
             first == Len(sheets[CurSheet(r)]) + 1
         IN  /\ sheets' = [sheets EXCEPT ![CurSheet(r)] = @ \o rows]
             /\ dataRows' = dataRows \cup
                    { <<CurSheet(r), i>> : i \in first..(first + Len(rows) - 1) }
             /\ calls' = [calls EXCEPT ![r] =
                             Append(@, Call("append", CurSheet(r), rows, "ok"))]
    /\ LoopTo(r, groupedFeedback[r], idx[r] + 1)
    /\ UNCHANGED <<nodeEnv, spreadsheetId, feedbackData, groupedFeedback>>
    /\ UNCHANGED configVars
    /\ UNCHANGED functionVars
    /\ UNCHANGED pageVars

\* AppendFails with the failure caught per group: the loop goes on
AppendFailsContinues(r) ==
    /\ pc[r] = "append"
    /\ \E now \in Clock :
         calls' = [calls EXCEPT ![r] =
                     Append(@, Call("append", CurSheet(r),
                                    BuildRows(CurGroup(r), CurQuestionIds(r), now), "error"))]
    /\ LoopTo(r, groupedFeedback[r], idx[r] + 1)
    /\ UNCHANGED <<sheets, dataRows, nodeEnv, spreadsheetId, feedbackData,
                   groupedFeedback>>
    /\ UNCHANGED configVars
    /\ UNCHANGED functionVars
    /\ UNCHANGED pageVars

\* values.append throws (no such sheet, or the store call fails): the error
\* leaves processSheetFeedback and the for-loop and reaches the catch of POST
AppendFails(r) ==
    /\ pc[r] = "append"
    /\ \E now \in Clock :
         calls' = [calls EXCEPT ![r] =
                     Append(@, Call("append", CurSheet(r),
                                    BuildRows(CurGroup(r), CurQuestionIds(r), now), "error"))]
    /\ Finish(r, CatchResponse)
    /\ UNCHANGED <<sheets, dataRows, nodeEnv, spreadsheetId, feedbackData,
                   groupedFeedback, idx>>
    /\ UNCHANGED configVars
    /\ UNCHANGED functionVars
    /\ UNCHANGED pageVars

Next ==
    \/ \E r \in Requests : \E body \in Batches : Post(r, body)
    \/ \E r \in Requests : AddSheetOk(r)
    \/ \E r \in Requests : AddSheetFails(r)
    \/ \E r \in Requests : UpdateOk(r)
    \/ \E r \in Requests : UpdateFails(r)
    \/ \E r \in Requests : AppendOk(r)
    \/ \E r \in Requests : AppendFails(r)

Spec == Init /\ [][Next]_vars

\* one request at a time, with the larger input set
NextSingle ==
    \/ \E body \in BatchesSingle : Post("r1", body)
    \/ AddSheetOk("r1")
    \/ AddSheetFails("r1")
    \/ UpdateOk("r1")
    \/ UpdateFails("r1")
    \/ AppendOk("r1")
    \/ AppendFails("r1")

SpecSingle == Init /\ [][NextSingle]_vars

\* ------------------------------------------------- configuration routes
\* no submit request has started
SubmitIdle ==
    /\ sheets = [t \in {} |-> <<>>]
    /\ dataRows = {}
    /\ pc = [r \in Requests |-> "idle"]
    /\ feedbackData = [r \in Requests |-> <<>>]
    /\ groupedFeedback = [r \in Requests |-> <<>>]
    /\ idx = [r \in Requests |-> 0]
    /\ response = [r \in Requests |-> NoResponse]
    /\ calls = [r \in Requests |-> <<>>]

\* the environment checks of an options route, in their order; "" when the
\* route goes on to the read
OptionsConfigurationError(v) ==
    IF v = "get-options-validated" /\ clientEmail = "" THEN "Client email not configured"
    ELSE IF v = "get-options-validated" /\ privateKey = "" THEN "Private key not configured"
    ELSE IF spreadsheetId = "" THEN "Spreadsheet ID not configured"
    ELSE ""

\* from the rows of 'Admin Config!A:C' to the response
OptionsFromRows(v, rows) ==
    IF Len(rows) = 0 THEN OptionsError(404, "No data found")
    ELSE IF v = "get-options-validated" /\ Len(rows) = 1
    THEN OptionsError(404, "No data rows found")
    ELSE OptionsOk(ParseOptions(rows))

\* the credentials handed to GoogleAuth are both set; without them the
\* client cannot be built and values.get rejects
CredentialsPresent == clientEmail # "" /\ privateKey # ""

\* GET get-options, the read succeeding (or not reached)
GetOptions(v) ==
    /\ optionsResponse[v] = NoOptionsResponse
    /\ OptionsConfigurationError(v) = "" => CredentialsPresent
    /\ optionsResponse' = [optionsResponse EXCEPT ![v] =
          IF OptionsConfigurationError(v) # ""
          THEN OptionsError(500, OptionsConfigurationError(v))
          ELSE OptionsFromRows(v, ReadRange(adminSheet, 3))]
    /\ UNCHANGED <<nodeEnv, spreadsheetId, clientEmail, privateKey, adminSheet,
                   schemaRequest, schemaResponse>>
    /\ UNCHANGED submitVars
    /\ UNCHANGED functionVars
    /\ UNCHANGED pageVars

\* GetOptionsReadFails answering 404 instead of 500
GetOptionsReadFailsNotFound(v) ==
    /\ optionsResponse[v] = NoOptionsResponse
    /\ OptionsConfigurationError(v) = ""
    /\ optionsResponse' = [optionsResponse EXCEPT ![v] =
          OptionsError(404, "Failed to read options")]
    /\ UNCHANGED <<nodeEnv, spreadsheetId, clientEmail, privateKey, adminSheet,
                   schemaRequest, schemaResponse>>
    /\ UNCHANGED submitVars
    /\ UNCHANGED functionVars
    /\ UNCHANGED pageVars

\* GET get-options, values.get throwing: the inner catch
GetOptionsReadFails(v) ==
    /\ optionsResponse[v] = NoOptionsResponse
    /\ OptionsConfigurationError(v) = ""
    /\ optionsResponse' = [optionsResponse EXCEPT ![v] =
          OptionsError(500, "Failed to read options")]
    /\ UNCHANGED <<nodeEnv, spreadsheetId, clientEmail, privateKey, adminSheet,
                   schemaRequest, schemaResponse>>
    /\ UNCHANGED submitVars
    /\ UNCHANGED functionVars
    /\ UNCHANGED pageVars

\* !branch || !year || !section
MissingParameters(query) ==
    query.branch = <<>> \/ query.year = <<>> \/ query.section = <<>>

\* GET admin-config, the read succeeding (or not reached); the spreadsheet
\* id is GOOGLE_ADMIN_SPREADSHEET_ID || GOOGLE_SPREADSHEET_ID, taken here
\* with the admin variable unset
GetAdminConfig(f, query) ==
    /\ schemaResponse[f] = NoSchemaResponse
    /\ schemaRequest' = [schemaRequest EXCEPT ![f] = query]
    /\ \E now \in Clock :
         schemaResponse' = [schemaResponse EXCEPT ![f] =
            IF MissingParameters(query)
            THEN SchemaError(400, "Missing required parameters", FALSE)
            ELSE IF spreadsheetId = ""
            THEN SchemaError(500, "Admin spreadsheet ID not configured", FALSE)
            ELSE ParseCohortSchema(ReadRange(adminSheet, 702), query, now)]
    /\ UNCHANGED <<nodeEnv, spreadsheetId, clientEmail, privateKey, adminSheet,
                   optionsResponse>>
    /\ UNCHANGED submitVars
    /\ UNCHANGED functionVars
    /\ UNCHANGED pageVars

\* GET admin-config, values.get throwing: the inner catch answers 404 with
\* useStaticData
GetAdminConfigReadFails(f, query) ==
    /\ schemaResponse[f] = NoSchemaResponse
    /\ ~MissingParameters(query)
    /\ spreadsheetId # ""
    /\ schemaRequest' = [schemaRequest EXCEPT ![f] = query]
    /\ schemaResponse' = [schemaResponse EXCEPT ![f] =
          SchemaError(404, "Sheet not found or cannot be accessed", TRUE)]
    /\ UNCHANGED <<nodeEnv, spreadsheetId, clientEmail, privateKey, adminSheet,
                   optionsResponse>>
    /\ UNCHANGED submitVars
    /\ UNCHANGED functionVars
    /\ UNCHANGED pageVars

InitOptions ==
    /\ SubmitIdle
    /\ nodeEnv = "production"
    /\ spreadsheetId \in {"", "sheet-id"}
    /\ clientEmail \in {"", "service-account"}
    /\ privateKey \in {"", "key"}
    /\ adminSheet \in ConfigSheets
    /\ optionsResponse = [v \in OptionsRoutes |-> NoOptionsResponse]
    /\ schemaRequest = [f \in Fetches |-> NoQuery]
    /\ schemaResponse = [f \in Fetches |-> NoSchemaResponse]
    /\ ranges = NoRanges
    /\ grouping = NoGrouping
    /\ page = NoPage
    /\ pending = <<>>

NextOptions ==
    \/ \E v \in OptionsRoutes : GetOptions(v)
    \/ \E v \in OptionsRoutes : GetOptionsReadFails(v)

\* the options routes over every sheet
SpecOptions == InitOptions /\ [][NextOptions]_vars

InitSchema ==
    /\ SubmitIdle
    /\ nodeEnv = "production"
    /\ spreadsheetId \in {"", "sheet-id"}
    /\ clientEmail = "service-account"
    /\ privateKey = "key"
    /\ adminSheet \in ConfigSheets
    /\ optionsResponse = [v \in OptionsRoutes |-> NoOptionsResponse]
    /\ schemaRequest = [f \in Fetches |-> NoQuery]
    /\ schemaResponse = [f \in Fetches |-> NoSchemaResponse]
    /\ ranges = NoRanges
    /\ grouping = NoGrouping
    /\ page = NoPage
    /\ pending = <<>>

NextSchema ==
    \/ \E f \in Fetches : \E query \in SchemaQueries : GetAdminConfig(f, query)
    \/ \E f \in Fetches : \E query \in SchemaQueries : GetAdminConfigReadFails(f, query)

\* the schema route over every sheet
SpecSchema == InitSchema /\ [][NextSchema]_vars

\* --------------------------------------------------------------- ranges
\* the UTF-16 code units 65 to 95
CodeUnits ==
    <<"A", "B", "C", "D", "E", "F", "G", "H", "I", "J", "K", "L", "M",
      "N", "O", "P", "Q", "R", "S", "T", "U", "V", "W", "X", "Y", "Z",
      "[", "\\", "]", "^", "_">>

\* String.fromCharCode(code), for the codes 65 to 95
FromCharCode(code) == CodeUnits[code - 64]

\* `${sheetName}!A1:${String.fromCharCode(65 + headers.length - 1)}1`
HeaderRange(sheetName, length) ==
    sheetName \o "!A1:" \o FromCharCode(65 + length - 1) \o "1"

\* `${sheetName}!A:${String.fromCharCode(65 + headers.length - 1)}`
AppendRange(sheetName, length) ==
    sheetName \o "!A:" \o FromCharCode(65 + length - 1)

\* the range of values.update is built
BuildHeaderRange ==
    /\ ranges.length > 0
    /\ ranges.header = ""
    /\ ranges' = [ranges EXCEPT !.header = HeaderRange(ranges.sheetName, ranges.length)]
    /\ UNCHANGED <<nodeEnv, spreadsheetId, grouping>>
    /\ UNCHANGED submitVars
    /\ UNCHANGED configVars
    /\ UNCHANGED pageVars

\* the range of values.append is built
BuildAppendRange ==
    /\ ranges.length > 0
    /\ ranges.append = ""
    /\ ranges' = [ranges EXCEPT !.append = AppendRange(ranges.sheetName, ranges.length)]
    /\ UNCHANGED <<nodeEnv, spreadsheetId, grouping>>
    /\ UNCHANGED submitVars
    /\ UNCHANGED configVars
    /\ UNCHANGED pageVars

\* headers.length is 6 plus the number of question ids of the group
InitRange ==
    /\ SubmitIdle
    /\ nodeEnv = "production"
    /\ spreadsheetId = "sheet-id"
    /\ clientEmail = "service-account"
    /\ privateKey = "key"
    /\ adminSheet = <<>>
    /\ optionsResponse = [v \in OptionsRoutes |-> NoOptionsResponse]
    /\ schemaRequest = [f \in Fetches |-> NoQuery]
    /\ schemaResponse = [f \in Fetches |-> NoSchemaResponse]
    /\ grouping = NoGrouping
    /\ page = NoPage
    /\ pending = <<>>
    /\ \E item \in Items : \E length \in 6..MaxHeaderLength :
         ranges = [sheetName |-> SheetName(SheetKey(item)), length |-> length,
                   header |-> "", append |-> ""]

NextRange == BuildHeaderRange \/ BuildAppendRange

\* the ranges of processSheetFeedback for every header length
SpecRange == InitRange /\ [][NextRange]_vars

\* ------------------------------------------------------------ grouping
\* items whose branch, year or section contain the "_" of the cohort key
CohortItems ==
    { Feedback(b, y, s, "Math", "Dr.X", "23B81A4623", NoResponses, "T") :
        b \in {"A", "A_B"}, y \in {"B_C", "C"}, s \in {"1", "2"} }

\* const groupedFeedback = groupFeedbackBySheet(feedbackData)
GroupBatch ==
    /\ ~grouping.grouped
    /\ grouping' = [grouping EXCEPT !.grouped = TRUE,
                                    !.groups = groupFeedbackBySheet(grouping.feedbackData)]
    /\ UNCHANGED <<nodeEnv, spreadsheetId, ranges>>
    /\ UNCHANGED submitVars
    /\ UNCHANGED configVars
    /\ UNCHANGED pageVars

InitCohort ==
    /\ SubmitIdle
    /\ nodeEnv = "production"
    /\ spreadsheetId = "sheet-id"
    /\ clientEmail = "service-account"
    /\ privateKey = "key"
    /\ adminSheet = <<>>
    /\ optionsResponse = [v \in OptionsRoutes |-> NoOptionsResponse]
    /\ schemaRequest = [f \in Fetches |-> NoQuery]
    /\ schemaResponse = [f \in Fetches |-> NoSchemaResponse]
    /\ ranges = NoRanges
    /\ page = NoPage
    /\ pending = <<>>
    /\ \E batch \in SeqsUpTo(CohortItems, MaxCohortBatch) :
         grouping = [feedbackData |-> batch, grouped |-> FALSE, groups |-> <<>>]

NextCohort == GroupBatch

\* groupFeedbackBySheet over batches of every cohort
SpecCohort == InitCohort /\ [][NextCohort]_vars

\* --------------------------------------------------------- survey page
\* the options of the three selects
PageBranches == {"CSE", "ECE"}
PageYears == {"1st Year"}
PageSections == {"A", "B"}

\* the ratings the student gives
PageRatings == {8}

\* the subjects the admin-config route answers with
PageSubjects ==
    << [subject |-> "Math", teacher |-> "Dr.X",
        questions |-> << [id |-> Q1, required |-> TRUE] >>] >>

\* the body of a 200 response of admin-config to the query
ConfigOf(query) ==
    [null |-> FALSE, branch |-> query.branch, year |-> query.year,
     section |-> query.section, subjects |-> PageSubjects]

\* selectedBranch && selectedYear && selectedSection
SelectionComplete(p) ==
    p.selectedBranch # "" /\ p.selectedYear # "" /\ p.selectedSection # ""

\* the query string loadAdminConfig builds from the selection of its render
QueryOf(p) ==
    [branch |-> p.selectedBranch, year |-> p.selectedYear, section |-> p.selectedSection]

\* initializeFeedbackData(config), called by the loadAdminConfig of the
\* render that selected the query
InitialFeedback(config, query) ==
    [i \in 1..Len(config.subjects) |->
        [branch |-> query.branch, year |-> query.year, section |-> query.section,
         subject |-> config.subjects[i].subject,
         teacher |-> config.subjects[i].teacher,
         responses |-> NoResponses]]

\* the sequence without its i-th element
RemoveAt(seq, i) == SubSeq(seq, 1, i - 1) \o SubSeq(seq, i + 1, Len(seq))

HandleBranchChange(branch) ==
    /\ branch # page.selectedBranch
    /\ page' = [page EXCEPT !.selectedBranch = branch, !.selectedYear = "",
                            !.selectedSection = "", !.feedbackData = <<>>,
                            !.adminConfig = NullConfig]
    /\ UNCHANGED <<nodeEnv, spreadsheetId, pending>>
    /\ UNCHANGED submitVars
    /\ UNCHANGED configVars
    /\ UNCHANGED functionVars

HandleYearChange(year) ==
    /\ page.selectedBranch # ""
    /\ year # page.selectedYear
    /\ page' = [page EXCEPT !.selectedYear = year, !.selectedSection = "",
                            !.feedbackData = <<>>, !.adminConfig = NullConfig]
    /\ UNCHANGED <<nodeEnv, spreadsheetId, pending>>
    /\ UNCHANGED submitVars
    /\ UNCHANGED configVars
    /\ UNCHANGED functionVars

\* the section is selected, and the effect on the selection calls
\* loadAdminConfig, which sends its fetch
HandleSectionChange(section) ==
    /\ page.selectedYear # ""
    /\ section # page.selectedSection
    /\ Len(pending) < MaxPending
    /\ page' = [page EXCEPT !.selectedSection = section, !.feedbackData = <<>>,
                            !.adminConfig = NullConfig]
    /\ pending' = Append(pending, QueryOf(page'))
    /\ UNCHANGED <<nodeEnv, spreadsheetId>>
    /\ UNCHANGED submitVars
    /\ UNCHANGED configVars
    /\ UNCHANGED functionVars

\* the 10-minute interval fires while the page is visible
PollAdminConfig ==
    /\ SelectionComplete(page)
    /\ Len(pending) < MaxPending
    /\ pending' = Append(pending, QueryOf(page))
    /\ UNCHANGED <<nodeEnv, spreadsheetId, page>>
    /\ UNCHANGED submitVars
    /\ UNCHANGED configVars
    /\ UNCHANGED functionVars

\* loadAdminConfig after its fetch, response.ok
ConfigLoaded(i) ==
    /\ i \in 1..Len(pending)
    /\ page' = [page EXCEPT !.adminConfig = ConfigOf(pending[i]),
                            !.feedbackData = InitialFeedback(ConfigOf(pending[i]),
                                                             pending[i])]
    /\ pending' = RemoveAt(pending, i)
    /\ UNCHANGED <<nodeEnv, spreadsheetId>>
    /\ UNCHANGED submitVars
    /\ UNCHANGED configVars
    /\ UNCHANGED functionVars

\* loadAdminConfig after its fetch, response not ok or the fetch rejected
ConfigNotLoaded(i) ==
    /\ i \in 1..Len(pending)
    /\ page' = [page EXCEPT !.adminConfig = NullConfig]
    /\ pending' = RemoveAt(pending, i)
    /\ UNCHANGED <<nodeEnv, spreadsheetId>>
    /\ UNCHANGED submitVars
    /\ UNCHANGED configVars
    /\ UNCHANGED functionVars

\* a question shown for the subject is answered
HandleResponseChange(subjectIndex, questionId, answer) ==
    /\ ~page.adminConfig.null
    /\ subjectIndex \in 1..Len(page.feedbackData)
    /\ subjectIndex \in 1..Len(page.adminConfig.subjects)
    /\ \E n \in 1..Len(page.adminConfig.subjects[subjectIndex].questions) :
          page.adminConfig.subjects[subjectIndex].questions[n].id = questionId
    /\ page' = [page EXCEPT !.feedbackData[subjectIndex].responses =
                   [q \in DOMAIN @ \cup {questionId} |->
                       IF q = questionId THEN Num(answer) ELSE @[q]]]
    /\ UNCHANGED <<nodeEnv, spreadsheetId, pending>>
    /\ UNCHANGED submitVars
    /\ UNCHANGED configVars
    /\ UNCHANGED functionVars

\* validateForm, the registration number being filled in
ValidateForm(p) ==
    /\ SelectionComplete(p)
    /\ ~p.adminConfig.null
    /\ \A i \in 1..Len(p.feedbackData) :
         \A n \in 1..Len(p.adminConfig.subjects[i].questions) :
            LET question == p.adminConfig.subjects[i].questions[n]
            IN  question.required =>
                   /\ question.id \in DOMAIN p.feedbackData[i].responses
                   /\ Truthy(p.feedbackData[i].responses[question.id])

\* handleSubmit, the submit answered ok: the form is reset
HandleSubmit ==
    /\ ValidateForm(page)
    /\ page' = NoPage
    /\ UNCHANGED <<nodeEnv, spreadsheetId, pending>>
    /\ UNCHANGED submitVars
    /\ UNCHANGED configVars
    /\ UNCHANGED functionVars

InitPage ==
    /\ SubmitIdle
    /\ nodeEnv = "production"
    /\ spreadsheetId = "sheet-id"
    /\ clientEmail = "service-account"
    /\ privateKey = "key"
    /\ adminSheet = <<>>
    /\ optionsResponse = [v \in OptionsRoutes |-> NoOptionsResponse]
    /\ schemaRequest = [f \in Fetches |-> NoQuery]
    /\ schemaResponse = [f \in Fetches |-> NoSchemaResponse]
    /\ ranges = NoRanges
    /\ grouping = NoGrouping
    /\ page = NoPage
    /\ pending = <<>>

NextPage ==
    \/ \E branch \in PageBranches : HandleBranchChange(branch)
    \/ \E year \in PageYears : HandleYearChange(year)
    \/ \E section \in PageSections : HandleSectionChange(section)
    \/ PollAdminConfig
    \/ \E i \in 1..MaxPending : ConfigLoaded(i)
    \/ \E i \in 1..MaxPending : ConfigNotLoaded(i)
    \/ \E answer \in PageRatings : HandleResponseChange(1, Q1, answer)
    \/ HandleSubmit

\* the survey page and its admin-config fetches
SpecPage == InitPage /\ [][NextPage]_vars

\* the sheets with at most one data row
SmallSheets == { sheet \in ConfigSheets : Len(sheet) <= 2 }

InitFetch ==
    /\ SubmitIdle
    /\ nodeEnv = "production"
    /\ spreadsheetId \in {"", "sheet-id"}
    /\ clientEmail = "service-account"
    /\ privateKey = "key"
    /\ adminSheet \in SmallSheets
    /\ optionsResponse = [v \in OptionsRoutes |-> NoOptionsResponse]
    /\ schemaRequest = [f \in Fetches |-> NoQuery]
    /\ schemaResponse = [f \in Fetches |-> NoSchemaResponse]
    /\ ranges = NoRanges
    /\ grouping = NoGrouping
    /\ page = NoPage
    /\ pending = <<>>

NextFetch ==
    \/ \E v \in OptionsRoutes : GetOptions(v)
    \/ \E v \in OptionsRoutes : GetOptionsReadFails(v)
    \/ \E f \in Fetches : \E query \in SchemaQueries : GetAdminConfig(f, query)
    \/ \E f \in Fetches : \E query \in SchemaQueries : GetAdminConfigReadFails(f, query)

\* the options routes and the schema route together
SpecFetch == InitFetch /\ [][NextFetch]_vars

\* ====================================================== claims C1 - C10
Done(r) == pc[r] = "done"

\* positions of the calls of request r with the given op and result
CallsOf(r, op, results) ==
    { k \in 1..Len(calls[r]) : calls[r][k].op = op /\ calls[r][k].result \in results }

AllCallsOk(r) == \A k \in 1..Len(calls[r]) : calls[r][k].result = "ok"

\* the answer of an item to a question, as the data model states it: the
\* stringified value when the response map has the id, else the empty string
StatedAnswer(feedback, questionId) ==
    IF questionId \in DOMAIN feedback.responses
    THEN String(feedback.responses[questionId])
    ELSE ""

StatedRow(feedback, questionIds, ts) ==
    <<ts, feedback.branch, feedback.year, feedback.section,
      feedback.subject, feedback.teacher>>
    \o [i \in 1..Len(questionIds) |-> StatedAnswer(feedback, questionIds[i])]

SameCohort(batch) ==
    \A i, j \in 1..Len(batch) :
        /\ batch[i].branch = batch[j].branch
        /\ batch[i].year = batch[j].year
        /\ batch[i].section = batch[j].section

\* C1: a non-empty single-cohort batch submitted to a store without the
\* cohort's table, every store call succeeding, leaves the table
\* "Responses_<branch>_<year>_<section>" holding the header row
\* [Timestamp, Branch, Year, Section, Subject, Teacher, sorted question ids]
\* followed by one row per item, in batch order, with the item's timestamp,
\* fixed fields and answers.
C1_SubmitWritesTable ==
    LET batch == feedbackData["r1"]
        name == "Responses_" \o batch[1].branch \o "_" \o batch[1].year
                \o "_" \o batch[1].section
        ids == SelectSeq(QuestionIdOrder,
                   LAMBDA q : \E i \in 1..Len(batch) : q \in DOMAIN batch[i].responses)
    IN  ( /\ Done("r1")
          /\ Len(batch) >= 1
          /\ SameCohort(batch)
          /\ Len(calls["r1"]) = 3
          /\ AllCallsOk("r1") )
        => /\ name \in DOMAIN sheets
           /\ Len(sheets[name]) = 1 + Len(batch)
           /\ sheets[name][1] =
                <<"Timestamp", "Branch", "Year", "Section", "Subject", "Teacher">> \o ids
           /\ \A i \in 1..Len(batch) :
                \E ts \in (IF batch[i].timestamp = "" THEN Clock ELSE {batch[i].timestamp}) :
                    sheets[name][i + 1] = StatedRow(batch[i], ids, ts)

\* C2: a row written by values.append is never afterwards overwritten,
\* changed or removed by any step of any request.
C2_RowsAppendOnly ==
    [][ \A p \in dataRows :
            /\ p[1] \in DOMAIN sheets'
            /\ Len(sheets'[p[1]]) >= p[2]
            /\ sheets'[p[1]][p[2]] = sheets[p[1]][p[2]] ]_vars

\* C3: in a creation race addSheet succeeds for at most one request per
\* title, an "already exists" failure is followed by the append of the same
\* request, and a request ends in the catch of POST only through a failure
\* of its own append.
C3_CreationRaceTolerated ==
    /\ \A t \in DOMAIN sheets :
          Cardinality({ r \in Requests :
              \E k \in CallsOf(r, "addSheet", {"ok"}) : calls[r][k].title = t }) <= 1
    /\ \A r \in Requests : \A k \in CallsOf(r, "addSheet", {"exists"}) :
          IF k = Len(calls[r])
          THEN pc[r] = "append" /\ response[r] = NoResponse
          ELSE /\ calls[r][k + 1].op = "append"
               /\ calls[r][k + 1].title = calls[r][k].title
    /\ \A r \in Requests :
          (Done(r) /\ calls[r] # <<>> /\ response[r] = CatchResponse)
          => /\ calls[r][Len(calls[r])].op = "append"
             /\ calls[r][Len(calls[r])].result = "error"

\* two requests raced for the same new title: one has created the sheet and
\* not yet written its header, the other got "already exists" and has
\* appended and answered 200
C3_Witness ==
    \E r1, r2 \in Requests :
        /\ r1 # r2
        /\ pc[r1] = "update"
        /\ Len(calls[r2]) = 2
        /\ calls[r2][1].result = "exists"
        /\ calls[r2][1].title = calls[r1][1].title
        /\ calls[r2][2].op = "append" /\ calls[r2][2].result = "ok"
        /\ response[r2].status = 200

\* C4: an empty batch is answered 400 and no store call is issued.
C4_EmptyBatchRejected ==
    \A r \in Requests :
        (pc[r] # "idle" /\ feedbackData[r] = <<>>)
        => /\ Done(r)
           /\ response[r].status = 400
           /\ calls[r] = <<>>

C4_Witness ==
    \E r \in Requests :
        /\ Done(r) /\ feedbackData[r] = <<>> /\ response[r].status = 400
        /\ \E o \in Requests : o # r /\ calls[o] # <<>>

\* C5: a failure of table creation or of the header write, for whatever
\* reason, is not propagated: the next store call of the request is the
\* append for the same table, and a request all of whose appends succeed
\* answers 200 with the count of its groups.
C5_EnsureTableNeverBlocksAppend ==
    \A r \in Requests :
        /\ \A k \in CallsOf(r, "addSheet", {"exists", "error"})
                    \cup CallsOf(r, "update", {"error"}) :
              IF k = Len(calls[r])
              THEN pc[r] = "append" /\ response[r] = NoResponse
              ELSE /\ calls[r][k + 1].op = "append"
                   /\ calls[r][k + 1].title = calls[r][k].title
        /\ (Done(r) /\ calls[r] # <<>> /\ CallsOf(r, "append", {"error"}) = {})
              => response[r] = Response(200, Len(groupedFeedback[r]), FALSE)

\* a second submit for a cohort whose table a finished first submit created:
\* its addSheet fails, its append succeeds and it answers 200
C5_Witness ==
    \E r1, r2 \in Requests :
        /\ r1 # r2
        /\ Done(r1) /\ response[r1].status = 200 /\ calls[r1][1].result = "ok"
        /\ Done(r2) /\ response[r2].status = 200
        /\ calls[r2][1].op = "addSheet"
        /\ calls[r2][1].result \in {"exists", "error"}
        /\ calls[r2][1].title = calls[r1][1].title
        /\ calls[r2][2].op = "append" /\ calls[r2][2].result = "ok"
        /\ Len(sheets[calls[r2][1].title]) = 3

\* the entry of groupedFeedback[r] that a call of r was made for
GroupOfCall(r, k) ==
    CHOOSE i \in 1..Len(groupedFeedback[r]) :
        "Responses_" \o groupedFeedback[r][i].key = calls[r][k].title

\* C6: a failure of the append of one cohort group is isolated to it: the
\* groups after the failing one are still attempted.
C6_AppendFailureIsolated ==
    \A r \in Requests : \A k \in CallsOf(r, "append", {"error"}) :
        (Done(r) /\ GroupOfCall(r, k) < Len(groupedFeedback[r]))
        => \E j \in (k + 1)..Len(calls[r]) :
              calls[r][j].title =
                  "Responses_" \o groupedFeedback[r][GroupOfCall(r, k) + 1].key

\* an ok append of the request is still the tail of its sheet
Persisted(r, k) ==
    LET rows == sheets[calls[r][k].title]
        n == Len(calls[r][k].values)
    IN  /\ Len(rows) >= n
        /\ SubSeq(rows, Len(rows) - n + 1, Len(rows)) = calls[r][k].values

\* C7 as claimed: a failed append is the last store call of the request, the
\* rows appended for earlier groups are still in the store, and the request
\* is reported as failed (500).
C7_AppendFailureAbortsWith500 ==
    \A k \in CallsOf("r1", "append", {"error"}) :
        /\ k = Len(calls["r1"])
        /\ Done("r1")
        /\ \A j \in CallsOf("r1", "append", {"ok"}) : Persisted("r1", j)
        /\ response["r1"].status = 500

\* C7 as amended: a failed append is the last store call of the request (no
\* call is made for a later group), the rows appended for earlier groups are
\* still in the store, and the response is the one of the catch block of
\* POST: 500, or 200 flagged development mode when NODE_ENV is development.
C7_AppendFailureAborts ==
    \A k \in CallsOf("r1", "append", {"error"}) :
        /\ k = Len(calls["r1"])
        /\ Done("r1")
        /\ idx["r1"] = GroupOfCall("r1", k)
        /\ \A j \in CallsOf("r1", "append", {"ok"}) : Persisted("r1", j)
        /\ response["r1"] = IF nodeEnv = "development"
                            THEN Response(200, -1, TRUE)
                            ELSE Response(500, -1, FALSE)

\* a two-cohort batch whose first group was appended and whose second
\* append failed: the request is over and the first group's rows are stored
C7_Witness ==
    /\ Done("r1")
    /\ Len(groupedFeedback["r1"]) = 2
    /\ idx["r1"] = 2
    /\ CallsOf("r1", "append", {"ok"}) # {}
    /\ CallsOf("r1", "append", {"error"}) # {}
    /\ Len(sheets["Responses_" \o groupedFeedback["r1"][1].key]) >= 1

AppendedGroups(r) == { GroupOfCall(r, k) : k \in CallsOf(r, "append", {"ok"}) }

\* C8 as claimed: a failed append makes the response 500, and a 200 means
\* that the rows of every cohort group were appended.
C8_AppendFailureIs500 ==
    \A r \in Requests :
        Done(r) =>
          /\ CallsOf(r, "append", {"error"}) # {} => response[r].status = 500
          /\ response[r].status = 200 =>
                AppendedGroups(r) = 1..Len(groupedFeedback[r])

\* C8 as amended: unless NODE_ENV is development, a failed append makes the
\* response 500 and a 200 means that every group was appended; in
\* development the failed append is answered 200 with the development-mode
\* message, which is the only 200 that does not mean every group was appended.
C8_AppendFailureIs500UnlessDevelopment ==
    \A r \in Requests :
        Done(r) =>
          /\ CallsOf(r, "append", {"error"}) # {} =>
                /\ response[r].status = IF nodeEnv = "development" THEN 200 ELSE 500
                /\ response[r].developmentMode = (nodeEnv = "development")
          /\ (response[r].status = 200 /\ ~response[r].developmentMode) =>
                /\ Len(groupedFeedback[r]) >= 1
                /\ AppendedGroups(r) = 1..Len(groupedFeedback[r])

C8_Witness ==
    \E r1, r2 \in Requests :
        /\ nodeEnv = "production"
        /\ Done(r1) /\ CallsOf(r1, "append", {"error"}) # {} /\ response[r1].status = 500
        /\ Done(r2) /\ response[r2].status = 200 /\ CallsOf(r2, "append", {"ok"}) # {}

\* C9: the groups partition the batch: the keys are pairwise distinct, each
\* group is exactly the items of the batch whose
\* branch + "_" + year + "_" + section is the group's key, in batch order,
\* no group is empty and every item is in a group.
C9_GroupsPartitionBatch ==
    LET batch == feedbackData["r1"]
        groups == groupedFeedback["r1"]
        KeyOf(f) == f.branch \o "_" \o f.year \o "_" \o f.section
        Size(i) == Len(groups[i].items)
        RECURSIVE Total(_)
        Total(n) == IF n = 0 THEN 0 ELSE Size(n) + Total(n - 1)
    IN  (pc["r1"] # "idle" /\ batch # <<>> /\ spreadsheetId # "")
        => /\ \A i, j \in 1..Len(groups) : groups[i].key = groups[j].key => i = j
           /\ \A i \in 1..Len(groups) :
                /\ groups[i].items # <<>>
                /\ groups[i].items =
                      SelectSeq(batch, LAMBDA f : KeyOf(f) = groups[i].key)
           /\ \A n \in 1..Len(batch) :
                \E i \in 1..Len(groups) : groups[i].key = KeyOf(batch[n])
           /\ Total(Len(groups)) = Len(batch)
           /\ (Len(batch) = 3 /\ batch[1].branch = "CSE" /\ batch[2].branch = "CSE"
               /\ batch[3].branch = "ECE")
              => /\ Len(groups) = 2
                 /\ groups[1].key = "CSE_1st Year_A" /\ Size(1) = 2
                 /\ groups[2].key = "ECE_1st Year_A" /\ Size(2) = 1

\* a batch whose cohorts alternate (CSE, ECE, CSE with different items)
\* grouped into two groups of sizes 2 and 1
C9_Witness ==
    LET batch == feedbackData["r1"]
        groups == groupedFeedback["r1"]
    IN  /\ Len(batch) = 3 /\ Len(groups) = 2
        /\ batch[1].branch = "CSE" /\ batch[2].branch = "ECE" /\ batch[3].branch = "CSE"
        /\ batch[1] # batch[3]
        /\ groups[1].items = <<batch[1], batch[3]>>
        /\ groups[2].items = <<batch[2]>>

\* C10: every row handed to values.append has 6 + questionIds.length cells,
\* and the cell of a question id for which the item has no response is "".
C10_RowShape ==
    \A k \in CallsOf("r1", "append", {"ok", "error"}) :
        LET group == groupedFeedback["r1"][GroupOfCall("r1", k)].items
            ids == QuestionIds(group)
            rows == calls["r1"][k].values
        IN  /\ Len(rows) = Len(group)
            /\ Len(ids) = Cardinality(
                   { q \in DOMAIN QuestionIdOrder :
                       \E i \in 1..Len(group) :
                           QuestionIdOrder[q] \in DOMAIN group[i].responses })
            /\ \A i \in 1..Len(rows) :
                 /\ Len(rows[i]) = 6 + Len(ids)
                 /\ \A n \in 1..Len(ids) :
                       ids[n] \notin DOMAIN group[i].responses => rows[i][6 + n] = ""

\* a group of two items answering different questions: each row has an
\* empty cell for the question its item did not answer
C10_Witness ==
    \E k \in CallsOf("r1", "append", {"ok"}) :
        LET group == groupedFeedback["r1"][GroupOfCall("r1", k)].items
            rows == calls["r1"][k].values
        IN  /\ Len(group) = 2
            /\ DOMAIN group[1].responses = {Q1}
            /\ DOMAIN group[2].responses = {Q2, Q10}
            /\ Len(rows[1]) = 9
            /\ rows[1][8] = "" /\ rows[1][9] = "" /\ rows[2][7] = ""
            /\ rows[1][7] # ""

\* ===================================================== claims C11 - C20
\* C11: the cell of a question id that the item's response map has is the
\* stringified answer, for every answer value (0, false and "" included).
C11_AnswersStringified ==
    \A k \in CallsOf("r1", "append", {"ok", "error"}) :
        LET group == groupedFeedback["r1"][GroupOfCall("r1", k)].items
            ids == QuestionIds(group)
            rows == calls["r1"][k].values
        IN  \A i \in 1..Len(group) : \A n \in 1..Len(ids) :
                ids[n] \in DOMAIN group[i].responses
                => rows[i][6 + n] = String(group[i].responses[ids[n]])

\* position of a question id in the order of sort()
Rank(q) == CHOOSE n \in DOMAIN QuestionIdOrder : QuestionIdOrder[n] = q

\* C12: per cohort group the question ids are the union of the ids of the
\* items' response maps, without duplicates, ascending; the header written
\* is the six fixed names followed by them, and every row carries under
\* column 6 + n the answer its item gave to the n-th of them.
C12_HeaderAndRowsAligned ==
    \A k \in 1..Len(calls["r1"]) :
        LET call == calls["r1"][k]
            group == groupedFeedback["r1"][GroupOfCall("r1", k)].items
            width == IF call.op = "addSheet" THEN 6 ELSE Len(call.values[1])
            ids == IF call.op = "update"
                   THEN SubSeq(call.values[1], 7, width)
                   ELSE QuestionIds(group)
        IN  call.op \in {"update", "append"} =>
            /\ { ids[n] : n \in 1..Len(ids) } =
                  { q \in {Q1, Q2, Q10} :
                      \E i \in 1..Len(group) : q \in DOMAIN group[i].responses }
            /\ \A m, n \in 1..Len(ids) : m < n => Rank(ids[m]) < Rank(ids[n])
            /\ width = 6 + Len(ids)
            /\ call.op = "update" =>
                  SubSeq(call.values[1], 1, 6) =
                      <<"Timestamp", "Branch", "Year", "Section", "Subject", "Teacher">>
            /\ call.op = "append" =>
                  \A i \in 1..Len(group) : \A n \in 1..Len(ids) :
                      /\ ids[n] \notin DOMAIN group[i].responses
                            => call.values[i][6 + n] = ""
                      /\ (ids[n] \in DOMAIN group[i].responses
                          /\ Truthy(group[i].responses[ids[n]]))
                            => call.values[i][6 + n] =
                                 String(group[i].responses[ids[n]])

\* a group whose first item answers question2 and question10 and whose
\* second answers question1: the header lists question1, question10,
\* question2 and the appended rows follow it
C12_Witness ==
    \E k \in CallsOf("r1", "append", {"ok"}) :
        LET group == groupedFeedback["r1"][GroupOfCall("r1", k)].items
            t == calls["r1"][k].title
        IN  /\ Len(group) = 2
            /\ DOMAIN group[1].responses = {Q2, Q10}
            /\ DOMAIN group[2].responses = {Q1}
            /\ Len(sheets[t]) = 3
            /\ SubSeq(sheets[t][1], 7, 9) = <<Q1, Q10, Q2>>
            /\ sheets[t][2][8] = "10"
            /\ sheets[t][3][7] = "8"

\* the keys of the batch in the order of their first occurrence
RECURSIVE FirstOccurrences(_)
FirstOccurrences(batch) ==
    IF batch = <<>> THEN <<>>
    ELSE LET n == Len(batch)
             before == FirstOccurrences(SubSeq(batch, 1, n - 1))
             key == batch[n].branch \o "_" \o batch[n].year \o "_" \o batch[n].section
         IN  IF \E i \in 1..Len(before) : before[i] = key
             THEN before ELSE Append(before, key)

\* C13: a successful submit works through the cohort groups one after
\* another in the order in which the keys first occur in the batch, and
\* reports the number of distinct keys of the batch.
C13_GroupsInFirstOccurrenceOrder ==
    LET batch == feedbackData["r1"]
        order == FirstOccurrences(batch)
        appends == SelectSeq(calls["r1"], LAMBDA c : c.op = "append")
    IN  (Done("r1") /\ response["r1"].status = 200 /\ ~response["r1"].developmentMode)
        => /\ Len(appends) = Len(order)
           /\ \A i \in 1..Len(order) : appends[i].title = "Responses_" \o order[i]
           /\ \A j, k \in 1..Len(calls["r1"]) :
                 j < k => GroupOfCall("r1", j) <= GroupOfCall("r1", k)
           /\ response["r1"].sheetsProcessed =
                 Cardinality({ batch[i].branch \o "_" \o batch[i].year \o "_"
                               \o batch[i].section : i \in 1..Len(batch) })

\* a batch ECE, CSE, ECE answered 200: ECE was appended first, the count is 2
C13_Witness ==
    LET batch == feedbackData["r1"]
        appends == SelectSeq(calls["r1"], LAMBDA c : c.op = "append")
    IN  /\ Done("r1") /\ response["r1"] = Response(200, 2, FALSE)
        /\ Len(batch) = 3
        /\ batch[1].branch = "ECE" /\ batch[2].branch = "CSE" /\ batch[3].branch = "ECE"
        /\ Len(appends) = 2
        /\ appends[1].title = "Responses_ECE_1st Year_A"
        /\ appends[2].title = "Responses_CSE_1st Year_A"

\* the request whose addSheet created the sheet
Created(r, t) == \E k \in CallsOf(r, "addSheet", {"ok"}) : calls[r][k].title = t

\* C14: the header row is written only by the request that created the
\* sheet: every values.update follows that request's own successful
\* addSheet, and the append of a request that found the sheet existing
\* leaves an existing first row as it is and adds rows laid out by the
\* question ids of its own batch.
C14_HeaderOnlyByCreator ==
    /\ [](\A r \in Requests : \A k \in CallsOf(r, "update", {"ok", "error"}) :
            /\ k > 1
            /\ calls[r][k - 1].op = "addSheet"
            /\ calls[r][k - 1].result = "ok"
            /\ calls[r][k - 1].title = calls[r][k].title)
    /\ [][ \A r \in Requests : \A t \in DOMAIN sheets :
             (calls'[r] # calls[r] /\ ~Created(r, t) /\ sheets'[t] # sheets[t])
             => LET new == SubSeq(sheets'[t], Len(sheets[t]) + 1, Len(sheets'[t]))
                IN  /\ SubSeq(sheets'[t], 1, Len(sheets[t])) = sheets[t]
                    /\ new = calls'[r][Len(calls'[r])].values
                    /\ \A i \in 1..Len(new) :
                          Len(new[i]) = 6 + Cardinality(AllQuestionIds(CurGroup(r))) ]_vars

\* a sheet created with the header of a question1 batch to which a second
\* request, whose batch answers question2 only, has appended its row
C14_Witness ==
    \E r1, r2 \in Requests : \E t \in DOMAIN sheets :
        /\ r1 # r2
        /\ Created(r1, t) /\ ~Created(r2, t)
        /\ Done(r1) /\ Done(r2)
        /\ Len(sheets[t]) = 3
        /\ sheets[t][1] = <<"Timestamp", "Branch", "Year", "Section", "Subject",
                            "Teacher", Q1>>
        /\ DOMAIN feedbackData[r2][1].responses = {Q2}
        /\ calls[r2][Len(calls[r2])].title = t
        /\ sheets[t][3] = calls[r2][Len(calls[r2])].values[1]

\* the rows an options route is given
OptionRows == ReadRange(adminSheet, 3)

\* an options route that got past its environment checks and its read
OptionsParsed(v) ==
    /\ optionsResponse[v].status # 0
    /\ optionsResponse[v].status # 500

OptionList(v, c) ==
    IF c = 0 THEN optionsResponse[v].branches
    ELSE IF c = 1 THEN optionsResponse[v].years
    ELSE optionsResponse[v].sections

RowOrders(n) ==
    { p \in [1..n -> 1..n] : \A i, j \in 1..n : p[i] = p[j] => i = j }

\* C15: over a sheet of at least 2 rows the options are, per column, the
\* distinct trimmed values of the data rows, each once, ascending; every
\* listed value is the trimmed value of a data-row cell (the header row
\* contributes nothing) and every order of the data rows gives the same
\* lists.
C15_OptionsSortedDistinct ==
    \A v \in OptionsRoutes :
        LET data == Tail(OptionRows)
        IN  (OptionsParsed(v) /\ Len(OptionRows) >= 2) =>
            /\ optionsResponse[v].status = 200
            /\ \A c \in 0..2 :
                 LET list == OptionList(v, c)
                 IN  /\ \A m, n \in 1..Len(list) : m < n => StrLess(list[m], list[n])
                     /\ \A i \in 1..Len(data) :
                           (c + 1 <= Len(data[i]) /\ Trim(data[i][c + 1]) # <<>>)
                           => \E n \in 1..Len(list) : list[n] = Trim(data[i][c + 1])
                     /\ \A n \in 1..Len(list) :
                           \E i \in 1..Len(data) :
                              c + 1 <= Len(data[i]) /\ list[n] = Trim(data[i][c + 1])
            /\ \A p \in RowOrders(Len(data)) :
                 LET options == ParseOptions(<<OptionRows[1]>>
                                             \o [i \in 1..Len(data) |-> data[p[i]]])
                 IN  /\ options.branches = optionsResponse[v].branches
                     /\ options.years = optionsResponse[v].years
                     /\ options.sections = optionsResponse[v].sections

\* data rows ECE, then " CSE ": the branches are CSE, ECE
C15_Witness ==
    \E v \in OptionsRoutes :
        /\ optionsResponse[v].status = 200
        /\ Len(adminSheet) = 3
        /\ adminSheet[2][1] = cECE
        /\ adminSheet[3][1] = cCSEPadded
        /\ optionsResponse[v].branches = <<cCSE, cECE>>
        /\ optionsResponse[v].years = <<c1, c2>>

\* C16: the empty string is never a member of branches, years or sections.
C16_NoEmptyOption ==
    \A v \in OptionsRoutes : \A c \in 0..2 :
        \A n \in 1..Len(OptionList(v, c)) : OptionList(v, c)[n] # <<>>

\* C17: over a sheet of fewer than 2 rows the options fetch answers 404,
\* never a success with empty lists.
C17_NoDataRowsIs404 ==
    \A v \in OptionsRoutes :
        (OptionsParsed(v) /\ Len(OptionRows) < 2) => optionsResponse[v].status = 404

\* the schema fetch f got as far as the header row of a sheet that has one
SchemaParsed(f) ==
    /\ schemaResponse[f].status # 0
    /\ schemaResponse[f].error \notin { "Missing required parameters",
                                        "Admin spreadsheet ID not configured",
                                        "Sheet not found or cannot be accessed" }
    /\ Len(adminSheet) >= 1

\* some cell of the header row contains the keyword, whatever its case
HeaderHas(keyword) ==
    \E i \in 1..Len(adminSheet[1]) : Includes(ToLowerCase(adminSheet[1][i]), keyword)

HeaderComplete ==
    /\ HeaderHas(KwBranch) /\ HeaderHas(KwYear) /\ HeaderHas(KwSection)
    /\ HeaderHas(KwSubject) /\ HeaderHas(KwTeacher)

\* the cell of a row under the first header cell containing the keyword,
\* trimmed; "" where the row has no such cell
TrimmedCell(row, keyword) ==
    LET col == FindIndex(adminSheet[1], keyword) + 1
    IN  IF col >= 1 /\ col <= Len(row) THEN Trim(row[col]) ELSE <<>>

\* a usable row of the cohort: branch, year and section equal to the
\* query's, subject and teacher not empty
UsableRow(row, query) ==
    /\ TrimmedCell(row, KwBranch) = query.branch
    /\ TrimmedCell(row, KwYear) = query.year
    /\ TrimmedCell(row, KwSection) = query.section
    /\ TrimmedCell(row, KwSubject) # <<>>
    /\ TrimmedCell(row, KwTeacher) # <<>>

HasUsableRow(query) ==
    \E i \in 2..Len(adminSheet) : UsableRow(adminSheet[i], query)

\* C18: over a sheet whose header row has the five required columns, a
\* schema fetch for a cohort without a usable row (equality is exact and
\* case-sensitive on the trimmed cells) answers 404 with useStaticData; a
\* 200 always carries at least one subject, and only for a cohort that has
\* a usable row.
C18_NoMatchIsNotFound ==
    \A f \in Fetches :
        /\ (SchemaParsed(f) /\ HeaderComplete /\ ~HasUsableRow(schemaRequest[f]))
           => /\ schemaResponse[f].status = 404
              /\ schemaResponse[f].useStaticData
        /\ schemaResponse[f].status = 200
           => /\ Len(schemaResponse[f].subjects) >= 1
              /\ HasUsableRow(schemaRequest[f])

\* a sheet with a "cse" row and an ECE row without teacher: both the CSE and
\* the ECE cohort are answered 404
C18_Witness ==
    /\ adminSheet = << <<cBranch, cYear, cSection, cSubject, cTeacher, cQ1, cQ2>>,
                       <<cCseLower, c1, cA, cMath, cDrX>>,
                       <<cECE, c2, cB, cMath, cBlank>> >>
    /\ schemaRequest["f1"].branch = cCSE
    /\ schemaRequest["f2"].branch = cECE
    /\ schemaResponse["f1"].status = 404 /\ schemaResponse["f1"].useStaticData
    /\ schemaResponse["f2"].status = 404 /\ schemaResponse["f2"].useStaticData
    /\ schemaResponse["f1"].error = "No subjects found"
    /\ schemaResponse["f2"].error = "No subjects found"

\* C19: a schema fetch that reads a header row answers 400 "required
\* columns not found" exactly when one of the five keywords is contained in
\* no header cell, whatever the data rows are.
C19_MissingColumnsIs400 ==
    \A f \in Fetches :
        SchemaParsed(f) =>
            /\ ~HeaderComplete => /\ schemaResponse[f].status = 400
                                  /\ schemaResponse[f].error = "Required columns not found"
            /\ HeaderComplete => /\ schemaResponse[f].status # 400
                                 /\ schemaResponse[f].error # "Required columns not found"

\* a header without teacher column over a row of the cohort asked for
C19_Witness ==
    \E f \in Fetches :
        /\ adminSheet = << <<cBranch, cYear, cSection, cSubject>>,
                           <<cCSE, c1, cA, cMath, cDrX, cText1, cText2>> >>
        /\ schemaRequest[f] = [branch |-> cCSE, year |-> c1, section |-> cA]
        /\ schemaResponse[f].status = 400
        /\ schemaResponse[f].error = "Required columns not found"
        /\ schemaResponse[f].useStaticData

\* the header row of the specification's example
ExampleHeader == <<cBranch, cYear, cSection, cSubject, cTeacher, cQ1, cQ2>>

QuestionNames ==
    <<"question1", "question2", "question3", "question4", "question5", "question6">>

\* the positions (from 1) of the header cells after the teacher column whose
\* trimmed text is not empty
QuestionCells ==
    { i \in 1..Len(adminSheet[1]) :
        /\ i - 1 > FindIndex(adminSheet[1], KwTeacher)
        /\ Trim(adminSheet[1][i]) # <<>> }

\* the place of a question cell among the question cells, in header order
QuestionRank(i) == Cardinality({ j \in QuestionCells : j <= i })

\* C20: in a 200 response every subject carries the same question list:
\* one question per header cell after the teacher column with a non-empty
\* trimmed text, in header order, the k-th with id "question" + k and the
\* trimmed header text; the ids of a list are pairwise distinct, two fetches
\* over the same header give the same ids, and the header
\* [Branch,Year,Section,Subject,Teacher,Q1,Q2] gives question1/Q1 and
\* question2/Q2.
C20_QuestionColumnsAfterTeacher ==
    \A f \in Fetches :
        schemaResponse[f].status = 200 =>
            /\ \A s \in 1..Len(schemaResponse[f].subjects) :
                 LET questions == schemaResponse[f].subjects[s].questions
                 IN  /\ Len(questions) = Cardinality(QuestionCells)
                     /\ \A i \in QuestionCells :
                          /\ questions[QuestionRank(i)].id = QuestionNames[QuestionRank(i)]
                          /\ questions[QuestionRank(i)].text = Trim(adminSheet[1][i])
                     /\ \A m, n \in 1..Len(questions) :
                          questions[m].id = questions[n].id => m = n
                     /\ questions = schemaResponse[f].subjects[1].questions
                     /\ adminSheet[1] = ExampleHeader =>
                          /\ Len(questions) = 2
                          /\ questions[1].id = "question1" /\ questions[1].text = cQ1
                          /\ questions[2].id = "question2" /\ questions[2].text = cQ2
            /\ \A g \in Fetches :
                 schemaResponse[g].status = 200 =>
                    [n \in 1..Len(schemaResponse[f].subjects[1].questions) |->
                        schemaResponse[f].subjects[1].questions[n].id]
                    = [n \in 1..Len(schemaResponse[g].subjects[1].questions) |->
                        schemaResponse[g].subjects[1].questions[n].id]

\* a header with an empty cell and " Q1 " after " Teacher Name ", over two
\* rows of the cohort: two subjects, each with the one question question1/Q1
C20_Witness ==
    \E f \in Fetches :
        /\ Len(adminSheet) = 3
        /\ adminSheet[1] = <<cBranchLower, cYearUpper, cSection, cSubject,
                             cTeacherName, cEmpty, cQ1Padded>>
        /\ schemaResponse[f].status = 200
        /\ Len(schemaResponse[f].subjects) = 2
        /\ Len(schemaResponse[f].subjects[2].questions) = 1
        /\ schemaResponse[f].subjects[2].questions[1].id = "question1"
        /\ schemaResponse[f].subjects[2].questions[1].text = cQ1

\* ===================================================== claims C21 - C30
\* the rows (positions in the sheet) that are usable rows of the cohort
UsableRows(query) ==
    { i \in 2..Len(adminSheet) : UsableRow(adminSheet[i], query) }

\* the place of a usable row among the usable rows, in sheet order
UsableRank(query, i) == Cardinality({ j \in UsableRows(query) : j <= i })

\* C21: the subjects of a 200 response are, in the order of the rows, one
\* entry (trimmed subject, trimmed teacher) per data row of the cohort whose
\* subject and teacher are not empty; equal rows give equal entries, one
\* each, and a row of the cohort with an empty subject or teacher is left
\* out while the others are answered.
C21_OneSubjectPerUsableRow ==
    \A f \in Fetches :
        LET query == schemaRequest[f]
            subjects == schemaResponse[f].subjects
        IN  /\ schemaResponse[f].status = 200 =>
                /\ Len(subjects) = Cardinality(UsableRows(query))
                /\ \A i \in UsableRows(query) :
                     /\ subjects[UsableRank(query, i)].subject
                            = TrimmedCell(adminSheet[i], KwSubject)
                     /\ subjects[UsableRank(query, i)].teacher
                            = TrimmedCell(adminSheet[i], KwTeacher)
                /\ \A n \in 1..Len(subjects) :
                     subjects[n].subject # <<>> /\ subjects[n].teacher # <<>>
            /\ (SchemaParsed(f) /\ HeaderComplete /\ UsableRows(query) # {})
                => schemaResponse[f].status = 200

\* the same row twice: two equal entries
C21_Witness ==
    \E f \in Fetches :
        /\ Len(adminSheet) = 3
        /\ adminSheet[2] = <<cCSE, c1, cA, cMath, cDrX, cText1, cText2>>
        /\ adminSheet[3] = adminSheet[2]
        /\ schemaResponse[f].status = 200
        /\ Len(schemaResponse[f].subjects) = 2
        /\ schemaResponse[f].subjects[1] = schemaResponse[f].subjects[2]
        /\ schemaResponse[f].subjects[1].subject = cMath

\* an ECE row without teacher before a usable ECE row: one entry
C21_WitnessExcluded ==
    \E f \in Fetches :
        /\ Len(adminSheet) = 3
        /\ adminSheet[2] = <<cECE, c2, cB, cMath, cBlank>>
        /\ adminSheet[3] = <<cECE, c2, cB, cPhy, cDrY>>
        /\ schemaRequest[f].branch = cECE
        /\ schemaResponse[f].status = 200
        /\ Len(schemaResponse[f].subjects) = 1
        /\ schemaResponse[f].subjects[1].subject = cPhy

\* the messages naming a variable that is missing
MissingVariableMessages ==
    (IF clientEmail = "" THEN {"Client email not configured"} ELSE {})
    \cup (IF privateKey = "" THEN {"Private key not configured"} ELSE {})
    \cup (IF spreadsheetId = "" THEN {"Spreadsheet ID not configured"} ELSE {})

\* the response of an options route shows that values.get was called
OptionsReadCalled(v) ==
    /\ optionsResponse[v].status # 0
    /\ optionsResponse[v].error \notin { "Client email not configured",
                                         "Private key not configured",
                                         "Spreadsheet ID not configured" }

\* C22: an options fetch with the client email, the private key or the
\* spreadsheet id missing answers 500 with the message naming the missing
\* variable, and does not call the store.
C22_MissingVariableIs500 ==
    \A v \in OptionsRoutes :
        (optionsResponse[v].status # 0 /\ MissingVariableMessages # {}) =>
            /\ optionsResponse[v].status = 500
            /\ optionsResponse[v].error \in MissingVariableMessages
            /\ ~OptionsReadCalled(v)

\* the response reports that values.get failed
OptionsReadFailed(v) == optionsResponse[v].error = "Failed to read options"

SchemaReadFailed(f) ==
    schemaResponse[f].error = "Sheet not found or cannot be accessed"

\* C23 as stated: a failed read of the sheet is answered 500, by the options
\* fetch and by the schema fetch alike.
C23_ReadFailureIs500 ==
    /\ \A v \in OptionsRoutes : OptionsReadFailed(v) => optionsResponse[v].status = 500
    /\ \A f \in Fetches : SchemaReadFailed(f) => schemaResponse[f].status = 500

\* C23: a failed read is answered 500 by an options fetch and 404 with
\* useStaticData by the schema fetch; the answer is given by the step in
\* which the read fails and is never replaced (the read is not tried again).
C23_ReadFailureIs500OrStaticData ==
    /\ [](/\ \A v \in OptionsRoutes :
               OptionsReadFailed(v) => optionsResponse[v].status = 500
          /\ \A f \in Fetches :
               SchemaReadFailed(f) => /\ schemaResponse[f].status = 404
                                      /\ schemaResponse[f].useStaticData)
    /\ [][/\ \A v \in OptionsRoutes :
               /\ OptionsReadFailed(v) => optionsResponse'[v] = optionsResponse[v]
               /\ (optionsResponse'[v].error = "Failed to read options")
                    => (optionsResponse[v] = NoOptionsResponse \/ OptionsReadFailed(v))
          /\ \A f \in Fetches :
               /\ SchemaReadFailed(f) => schemaResponse'[f] = schemaResponse[f]
               /\ (schemaResponse'[f].error = "Sheet not found or cannot be accessed")
                    => (schemaResponse[f] = NoSchemaResponse \/ SchemaReadFailed(f))]_vars

\* both kinds of fetch over the same sheet, the read failing for each
C23_Witness ==
    /\ optionsResponse["get-options"].status = 500
    /\ OptionsReadFailed("get-options")
    /\ optionsResponse["get-options-validated"].status = 200
    /\ schemaResponse["f1"].status = 404
    /\ SchemaReadFailed("f1")
    /\ schemaResponse["f2"].status = 200

Letters ==
    <<"A", "B", "C", "D", "E", "F", "G", "H", "I", "J", "K", "L", "M",
      "N", "O", "P", "Q", "R", "S", "T", "U", "V", "W", "X", "Y", "Z">>

\* the name of the n-th column of a spreadsheet: A .. Z, AA, AB, ...
RECURSIVE ColumnName(_)
ColumnName(n) ==
    IF n <= 26 THEN Letters[n]
    ELSE ColumnName((n - 1) \div 26) \o Letters[((n - 1) % 26) + 1]

\* C24: for a header of n >= 6 cells the range of the header write is
\* A1:<n-th column>1 and the range of the append is A:<n-th column>, of the
\* group's sheet, also for n > 26.
C24_RangeEndsAtLastColumn ==
    /\ ranges.header # "" =>
         ranges.header = ranges.sheetName \o "!A1:" \o ColumnName(ranges.length) \o "1"
    /\ ranges.append # "" =>
         ranges.append = ranges.sheetName \o "!A:" \o ColumnName(ranges.length)

\* the items of a group contain the feedback
InGroup(group, feedback) ==
    \E k \in 1..Len(group.items) : group.items[k] = feedback

\* C25: two items of a batch are in the same group, and so written to the
\* same sheet, exactly when they agree on branch, year and section.
C25_SameGroupIffSameCohort ==
    grouping.grouped =>
        \A i, j \in 1..Len(grouping.feedbackData) :
            LET a == grouping.feedbackData[i]
                b == grouping.feedbackData[j]
            IN  (\E g \in 1..Len(grouping.groups) :
                    InGroup(grouping.groups[g], a) /\ InGroup(grouping.groups[g], b))
                <=> (a.branch = b.branch /\ a.year = b.year /\ a.section = b.section)

\* C26: a sheet that holds a row has as its first row a header beginning
\* Timestamp, Branch, Year, Section, Subject, Teacher.
C26_FirstRowIsHeader ==
    \A t \in DOMAIN sheets :
        Len(sheets[t]) >= 1 =>
            /\ Len(sheets[t][1]) >= 6
            /\ SubSeq(sheets[t][1], 1, 6)
                 = <<"Timestamp", "Branch", "Year", "Section", "Subject", "Teacher">>

\* the question columns the schema fetch makes of the header row
HeaderQuestionColumns ==
    QuestionColumns(adminSheet[1], FindIndex(adminSheet[1], KwTeacher))

\* C27: in a 200 response, whose subjects carry one question per question
\* column, the located index of the branch, year, section, subject and
\* teacher column is never the index of a question column.
C27_FixedColumnsAreNoQuestions ==
    \A f \in Fetches :
        schemaResponse[f].status = 200 =>
            /\ schemaResponse[f].subjects[1].questions = Questions(HeaderQuestionColumns)
            /\ \A keyword \in {KwBranch, KwYear, KwSection, KwSubject, KwTeacher} :
                 \A c \in 1..Len(HeaderQuestionColumns) :
                    HeaderQuestionColumns[c].index # FindIndex(adminSheet[1], keyword)

\* the batch with every registration number blanked
WithoutRegistration(batch) ==
    [i \in 1..Len(batch) |-> [batch[i] EXCEPT !.registrationNumber = ""]]

RegistrationNumbers(batch) ==
    { batch[i].registrationNumber : i \in 1..Len(batch) }

\* C28: the store calls of a submit are those of the batch with the
\* registration numbers blanked: each call names the sheet, and carries the
\* header or the rows, of a group of the blanked batch, so that batches
\* differing in registration numbers only cause the same calls; no cell
\* handed to the store is a registration number.
C28_RegistrationNumberNotStored ==
    LET batch == feedbackData["r1"]
        groups == groupFeedbackBySheet(WithoutRegistration(batch))
    IN  \A k \in 1..Len(calls["r1"]) :
            LET call == calls["r1"][k]
                g == GroupOfCall("r1", k)
            IN  /\ g <= Len(groups)
                /\ call.title = SheetName(groups[g].key)
                /\ call.op = "update" =>
                     call.values = <<Headers(QuestionIds(groups[g].items))>>
                /\ call.op = "append" =>
                     \E now \in Clock :
                        call.values = BuildRows(groups[g].items,
                                                QuestionIds(groups[g].items), now)
                /\ \A i \in 1..Len(call.values) : \A c \in 1..Len(call.values[i]) :
                     call.values[i][c] \notin RegistrationNumbers(batch)

\* two items that differ in the registration number only, appended as two
\* equal rows
C28_Witness ==
    LET batch == feedbackData["r1"]
        last == calls["r1"][Len(calls["r1"])]
    IN  /\ Done("r1") /\ response["r1"].status = 200
        /\ Len(batch) = 2
        /\ batch[1].registrationNumber # batch[2].registrationNumber
        /\ WithoutRegistration(batch)[1] = WithoutRegistration(batch)[2]
        /\ last.op = "append" /\ last.result = "ok"
        /\ Len(last.values) = 2
        /\ last.values[1] = last.values[2]

\* C29: the completion of a refresh of the configuration for the selection
\* that is shown (a fetch completes, the same configuration is held before
\* and after the step and the selection is unchanged) keeps every response
\* recorded before it.
C29_RefreshKeepsAnswers ==
    [][(/\ Len(pending') < Len(pending)
        /\ ~page.adminConfig.null /\ ~page'.adminConfig.null
        /\ QueryOf(page') = QueryOf(page)
        /\ page.adminConfig.branch = page.selectedBranch
        /\ page.adminConfig.year = page.selectedYear
        /\ page.adminConfig.section = page.selectedSection
        /\ page'.adminConfig = page.adminConfig)
       => \A i \in 1..Len(page.feedbackData) :
             /\ i <= Len(page'.feedbackData)
             /\ \A q \in DOMAIN page.feedbackData[i].responses :
                  /\ q \in DOMAIN page'.feedbackData[i].responses
                  /\ page'.feedbackData[i].responses[q]
                        = page.feedbackData[i].responses[q]]_vars

\* C30: a configuration held in adminConfig is the one of the selected
\* branch, year and section.
C30_ConfigMatchesSelection ==
    ~page.adminConfig.null =>
        /\ page.adminConfig.branch = page.selectedBranch
        /\ page.adminConfig.year = page.selectedYear
        /\ page.adminConfig.section = page.selectedSection

====
